---- MODULE Spec2Model ----
(***************************************************************************)
(* Model of the push/delivery pipeline of edgeone-webhook-pusher:          *)
(*   PushService.push            (fan-out engine)                          *)
(*   sendCustomMessage / sendTemplateMessage, getAccessToken (wechat)      *)
(*   MessageService.saveMessage  (history index, concurrent version)       *)
(* Every asynchronous I/O operation (key-value call, provider call) is one *)
(* step: the operation takes effect and the continuation of the awaiting   *)
(* code runs up to its next I/O operation.                                 *)
(***************************************************************************)
EXTENDS Integers, Sequences, FiniteSets, TLC

\* ---------------------------------------------------------------- bounds
\* Largest number of recipients bound to an App.
MaxRecipients == 2

\* Largest number of clock steps the time moves on by during a run.
MaxTicks == 2

\* ------------------------------------------------------- program constants
ACCESS_TOKEN_TTL == 7000
TOKEN_STATUS_TTL == 86400
GLOBAL_LIST_LIMIT == 10000
CHANNEL_LIST_LIMIT == 5000
APP_LIST_LIMIT == 5000
OPENID_LIST_LIMIT == 1000
EXPIRY_BUFFER == 300
MS_PER_SECOND == 1000
ERR_INVALID_CREDENTIAL == 40001
ERR_TOKEN_EXPIRED == 42001
PAGE_SIZE == 20

\* ------------------------------------------------------------ value sets
\* The absent value (null / undefined) of the program.
Null == [isNull |-> TRUE]

\* Routing keys a caller may present; "kx" never belongs to an App.
AppKeys == {"k1", "k2", "kx"}

PushModes == {"single", "subscribe"}

\* (messageType, templateId): templateId "" is a template App without an id.
MessageVariants ==
    { [messageType |-> "normal", templateId |-> ""],
      [messageType |-> "template", templateId |-> "tpl1"],
      [messageType |-> "template", templateId |-> ""] }

\* Provider lifetimes (seconds) of an issued token.
ExpiresInValues == {7200, 600}

\* errcode values of a send response: 0 success, the two credential codes,
\* and one other provider code (45015).
SendCodes == {0, ERR_INVALID_CREDENTIAL, ERR_TOKEN_EXPIRED, 45015}

\* errcode values of a token response that carries an error.
TokenErrorCodes == {40013}

\* The recipient lists an App may have, in listing order: of every length
\* up to MaxRecipients, and never in ascending order of openId, so that
\* "first" is the first of the listing and nothing else.
RecipientLists ==
    { [i \in 1..n |-> [openId |-> n + 1 - i]] : n \in 0..MaxRecipients }

Channels ==
    { [id |-> "c1", name |-> "n1",
       config |-> [appId |-> "wx1", appSecret |-> "s1"]],
      [id |-> "c1", name |-> "n1",
       config |-> [appId |-> "wx1", appSecret |-> ""]] }

Apps ==
    { [id |-> "a1", key |-> "k1", channelId |-> "c1", pushMode |-> m,
       messageType |-> v.messageType, templateId |-> v.templateId] :
          m \in PushModes, v \in MessageVariants }

\* The message a caller pushes ({title, desp?}).
Messages == { [title |-> "T", desp |-> "D"] }

\* Access tokens: the one a key-value entry written before this process
\* started may hold, and the one the provider issues.
NoToken == <<>>

\* The token an entry written for appId before this process started holds.
PresetToken(appId) == <<"preset", appId>>

\* The token the provider issues at time t with a lifetime of expires_in
\* seconds: every response carries a token of its own.
IssuedToken(t, expires_in) == <<"token", t, expires_in>>

\* ------------------------------------------------------ key-value store
\* A store is a function from the keys present to their values.
KvGet(kv, key) == IF key \in DOMAIN kv THEN kv[key] ELSE Null

KvPut(kv, key, value) ==
    [k \in DOMAIN kv \cup {key} |-> IF k = key THEN value ELSE kv[k]]

\* put(key, value, ttlSeconds): the entry is gone once the ttl has run out.
KvPutTtl(kv, key, value, ttl, t) ==
    KvPut(kv, key, [value |-> value, ttlAt |-> t + ttl * MS_PER_SECOND])

KvGetTtl(kv, key, t) ==
    IF key \in DOMAIN kv /\ t < kv[key].ttlAt THEN kv[key].value ELSE Null

\* delete(key): the entry is gone; deleting an absent key changes nothing.
KvDelete(kv, key) == [k \in DOMAIN kv \ {key} |-> kv[k]]

\* listAll(prefix): the keys present that start with the prefix.
KvListAll(kv, prefix) == { k \in DOMAIN kv : k[1] = prefix }

\* --------------------------------------------------------------- state
VARIABLES
    now,              \* Date.now(), milliseconds
    appsKV,           \* routing key -> App | Null
    openidsKV,        \* App id -> recipient records in listing order
    channelsKV,       \* channel id -> Channel | Null
    configKV,         \* token cache entries and TokenStatus, with ttl
    messagesKV,       \* message bodies and list indexes
    memoryTokenCache, \* process-memory token cache
    pc,               \* position of each push call
    req,              \* arguments of each push call
    loc,              \* local variables of each push call
    deliv,            \* the per-target delivery promises of each push call
    save,             \* the writes issued by saveMessage for each push call
    ret,              \* what each push call gave its caller
    provider          \* what the provider may answer (lifetimes, errcodes)

vars == <<now, appsKV, openidsKV, channelsKV, configKV, messagesKV,
          memoryTokenCache, pc, req, loc, deliv, save, ret, provider>>

config == <<appsKV, openidsKV, channelsKV, provider>>

\* Concurrent webhook requests, each one call of push.
Pushes == DOMAIN pc

NoReturn == [kind |-> "none"]

\* No call of push has been made yet.
NoCalls(ps) ==
    /\ pc = [p \in ps |-> "idle"]
    /\ req = [p \in ps |-> Null]
    /\ loc = [p \in ps |-> Null]
    /\ deliv = [p \in ps |-> <<>>]
    /\ save = [p \in ps |-> Null]
    /\ ret = [p \in ps |-> NoReturn]

\* The cache entry a call made at time 0 for appId left behind: usable
\* until 6900 s.
PresetEntry(appId) ==
    [accessToken |-> PresetToken(appId),
     expiresAt |-> 0 + (7200 - EXPIRY_BUFFER) * MS_PER_SECOND]

Init ==
    /\ now = 0
    /\ provider = [lifetimes |-> {7200}, sendCodes |-> SendCodes]
    /\ \E a \in Apps : appsKV = [k \in AppKeys |-> IF k = "k1" THEN a ELSE Null]
    /\ \E s \in RecipientLists : openidsKV = [a \in {"a1"} |-> s]
    /\ \E c \in Channels \cup {Null} : channelsKV = [k \in {"c1"} |-> c]
    /\ configKV \in
          { <<>>,
            KvPutTtl(<<>>, <<"wechat_access_token", "wx1">>,
                     PresetEntry("wx1"), ACCESS_TOKEN_TTL, 0) }
    /\ messagesKV = <<>>
    /\ memoryTokenCache = <<>>
    /\ NoCalls({"p1"})

\* ------------------------------------------------------ wechat service
\* An optional string field that is not set.
Undefined == "undefined"

\* The errorCode of a send result that carries none.
NoErrorCode == -1

\* Mutant of getAccessTokenCacheKey: the key is made of the channel's id.
getAccessTokenCacheKeyById(channel) == <<"wechat_access_token", channel.id>>

getAccessTokenCacheKey(channel) ==
    <<"wechat_access_token", channel.config.appId>>

getTokenStatusCacheKey(channelId) == <<"wechat_token_status", channelId>>

\* The static table of provider error codes (its texts in English).
WECHAT_ERROR_MESSAGES ==
    (40001 :> "AppSecret error or invalid Access Token") @@
    (40002 :> "invalid credential type") @@
    (40003 :> "invalid OpenID") @@
    (40013 :> "invalid AppID") @@
    (40125 :> "invalid AppSecret") @@
    (41001 :> "Access Token missing") @@
    (41002 :> "AppID missing") @@
    (41003 :> "AppSecret missing") @@
    (42001 :> "Access Token expired") @@
    (42002 :> "Refresh Token expired") @@
    (43001 :> "GET request required") @@
    (43002 :> "POST request required") @@
    (44001 :> "empty media file") @@
    (45015 :> "user does not follow the account") @@
    (48001 :> "API not authorized") @@
    (50001 :> "user has not authorized the API") @@
    (61023 :> "invalid Refresh Token")

\* The table's text for a known code, else a text built from the code.
getWeChatErrorMessage(errcode) ==
    IF errcode \in DOMAIN WECHAT_ERROR_MESSAGES
    THEN WECHAT_ERROR_MESSAGES[errcode]
    ELSE "WeChat API error (fallback): " \o ToString(errcode)

\* The errmsg text of a provider response.
ProviderErrmsg == "errmsg"

\* The error text doSend...Message builds from a failed response: the code
\* and the provider's own errmsg.
SendErrorText(errcode) ==
    "WeChat API error: " \o ToString(errcode) \o " - " \o ProviderErrmsg

\* What the provider may answer to a send: a response with an errcode, or
\* the request fails (fetch or res.json() throws).
SendOutcomes ==
    { [kind |-> "resp", errcode |-> c] : c \in provider.sendCodes } \cup
    { [kind |-> "throw", errcode |-> NoErrorCode] }

\* What the provider may answer to a token request.
TokenOutcomes ==
    { [kind |-> "error", errcode |-> c, token |-> NoToken, expires_in |-> 0] :
          c \in TokenErrorCodes } \cup
    { [kind |-> "malformed", errcode |-> 0, token |-> NoToken, expires_in |-> 0],
      [kind |-> "throw", errcode |-> 0, token |-> NoToken, expires_in |-> 0] } \cup
    { [kind |-> "ok", errcode |-> 0, token |-> IssuedToken(now, e),
       expires_in |-> e] : e \in provider.lifetimes }

\* doSendCustomMessage / doSendTemplateMessage: the result for an outcome.
doSendMessage(o) ==
    IF o.kind = "throw"
    THEN [success |-> FALSE, msgId |-> Undefined, error |-> "fetch failed",
          errorCode |-> NoErrorCode]
    ELSE IF o.errcode = 0
    THEN [success |-> TRUE, msgId |-> "msgid", error |-> Undefined,
          errorCode |-> NoErrorCode]
    ELSE [success |-> FALSE, msgId |-> Undefined,
          error |-> SendErrorText(o.errcode), errorCode |-> o.errcode]

\* The result of send...Message when no token could be obtained.
TokenFailure ==
    [success |-> FALSE, msgId |-> Undefined,
     error |-> "Failed to get access token", errorCode |-> NoErrorCode]

\* The error codes after which a send is retried with a fresh token.
RetryCodes == {ERR_INVALID_CREDENTIAL, ERR_TOKEN_EXPIRED}

ShouldRetry(result) == ~result.success /\ result.errorCode \in RetryCodes

\* Mutant of TokenExpiresAt: no safety margin.
TokenExpiresAtNoBuffer(t, expires_in) == t + expires_in * MS_PER_SECOND

\* The expiry the cache records for a token of lifetime expires_in seconds.
TokenExpiresAt(t, expires_in) ==
    t + (expires_in - EXPIRY_BUFFER) * MS_PER_SECOND

\* Mutant of TokenUsable: an entry is still used at its expiry time.
TokenUsableAtExpiry(entry, t) == entry # Null /\ entry.expiresAt >= t

\* A cache entry that may be used at time t.
TokenUsable(entry, t) == entry # Null /\ entry.expiresAt > t

FailedStatus(t, error) ==
    [valid |-> FALSE, lastRefreshAt |-> t, lastRefreshSuccess |-> FALSE,
     error |-> error]

FailedStatusCode(t, errcode) ==
    [valid |-> FALSE, lastRefreshAt |-> t, lastRefreshSuccess |-> FALSE,
     error |-> getWeChatErrorMessage(errcode), errorCode |-> errcode]

ValidStatus(t, expiresAt) ==
    [valid |-> TRUE, lastRefreshAt |-> t, lastRefreshSuccess |-> TRUE,
     expiresAt |-> expiresAt]

\* ---- one delivery: the promise of one map callback of push
\* pc: "kvget" | "tokfetch" | "kvput" | "status" | "send" | "done"
NewDelivery(openId, template) ==
    [openId |-> openId, template |-> template, pc |-> "new", phase |-> 1,
     token |-> NoToken, first |-> Null, sends |-> 0, refreshes |-> 0,
     fetches |-> 0, pending |-> Null, outcome |-> Null]

\* A settled promise: the locals of the callback are gone.
Settled(d) ==
    [d EXCEPT !.pc = "done", !.phase = 1, !.token = NoToken, !.first = Null,
              !.sends = 0, !.refreshes = 0, !.fetches = 0, !.pending = Null]

\* push: the callback's normal return (the DeliveryResult of a send result).
Delivered(d, result) ==
    [Settled(d) EXCEPT
        !.outcome = [openId |-> d.openId, success |-> result.success,
                     msgId |-> result.msgId, error |-> result.error]]

\* Mutant of Caught: no catch clause, the callback's promise rejects.
CaughtRethrows(d, message) == [Settled(d) EXCEPT !.pc = "rejected"]

\* push: the callback's catch clause.
Caught(d, message) ==
    [Settled(d) EXCEPT
        !.outcome = [openId |-> d.openId, success |-> FALSE,
                     msgId |-> Undefined, error |-> message]]

\* send...Message issues doSend...Message with a token.
IssueSend(d, token) ==
    [d EXCEPT !.pc = "send", !.token = token, !.sends = @ + 1]

\* Mutant of ResumeWithToken: the send is made whatever the token.
ResumeWithTokenSendsAnyway(d, token) == IssueSend(d, token)

\* send...Message resumes after (await getAccessToken) gave token.
ResumeWithToken(d, token) ==
    IF token = NoToken
    THEN IF d.phase = 1 THEN Delivered(d, TokenFailure)
                        ELSE Delivered(d, d.first)
    ELSE IssueSend(d, token)

\* Mutant of CallGetAccessToken: the memory tier is not consulted.
CallGetAccessTokenNoMemory(d, channel, forceRefresh, mem, t) ==
    IF channel.config.appId = "" \/ channel.config.appSecret = ""
    THEN ResumeWithToken(d, NoToken)
    ELSE IF ~forceRefresh
    THEN [d EXCEPT !.pc = "kvget"]
    ELSE [d EXCEPT !.pc = "tokfetch", !.fetches = @ + 1]

\* getAccessToken up to its first await: it returns at once (config
\* missing, or a usable memory entry) or goes on to the key-value read
\* (not forced) or to the token request (forced).
CallGetAccessToken(d, channel, forceRefresh, mem, t) ==
    LET key == getAccessTokenCacheKey(channel)
        memCached == KvGet(mem, key)
    IN  IF channel.config.appId = "" \/ channel.config.appSecret = ""
        THEN ResumeWithToken(d, NoToken)
        ELSE IF ~forceRefresh /\ TokenUsable(memCached, t)
        THEN ResumeWithToken(d, memCached.accessToken)
        ELSE IF ~forceRefresh
        THEN [d EXCEPT !.pc = "kvget"]
        ELSE [d EXCEPT !.pc = "tokfetch", !.fetches = @ + 1]

\* Mutant of ResumeWithResult: the retry is not limited to the first send.
ResumeWithResultRetryAgain(d, result, channel, mem, t) ==
    IF ShouldRetry(result)
    THEN CallGetAccessToken(
             [d EXCEPT !.phase = 2, !.first = result, !.refreshes = @ + 1],
             channel, TRUE, mem, t)
    ELSE Delivered(d, result)

\* send...Message resumes after (await doSend...Message) gave result.
ResumeWithResult(d, result, channel, mem, t) ==
    IF d.phase = 1 /\ ShouldRetry(result)
    THEN CallGetAccessToken(
             [d EXCEPT !.phase = 2, !.first = result, !.refreshes = @ + 1],
             channel, TRUE, mem, t)
    ELSE Delivered(d, result)

\* Mutant of KvTokenData: the expiry is read again from the memory
\* cache when the write is made.
KvTokenDataMixed(tokenData, mem, key) ==
    [accessToken |-> tokenData.accessToken, expiresAt |-> mem[key].expiresAt]

\* The value getAccessToken hands to configKV.put: its own tokenData.
KvTokenData(tokenData, mem, key) == tokenData

\* ---- getAccessToken, one step per awaited operation
SetDelivery(p, i, d) == deliv' = [deliv EXCEPT ![p][i] = d]

\* await configKV.get(cacheKey): a usable entry is copied to the memory
\* cache and returned, anything else leads to a token request; a failing
\* read rejects getAccessToken (the read is outside its try block).
TokenKvGet(p, i) ==
    LET d == deliv[p][i]
        channel == loc[p].channel
        key == getAccessTokenCacheKey(channel)
        cached == KvGetTtl(configKV, key, now)
    IN  /\ i \in DOMAIN deliv[p]
        /\ d.pc = "kvget"
        /\ \/ /\ TokenUsable(cached, now)
              /\ memoryTokenCache' =
                     KvPut(memoryTokenCache, key,
                           [accessToken |-> cached.accessToken,
                            expiresAt |-> cached.expiresAt])
              /\ SetDelivery(p, i, ResumeWithToken(d, cached.accessToken))
           \/ /\ ~TokenUsable(cached, now)
              /\ SetDelivery(p, i, [d EXCEPT !.pc = "tokfetch",
                                             !.fetches = @ + 1])
              /\ UNCHANGED memoryTokenCache
           \/ /\ SetDelivery(p, i, Caught(d, "KV error"))
              /\ UNCHANGED memoryTokenCache
        /\ UNCHANGED <<now, config, configKV, messagesKV, pc, req, loc,
                       save, ret>>

\* await fetch(token url) and res.json(): error response, malformed
\* response, issued token (memory cache set, key-value write issued) or a
\* failed request (caught).
TokenFetch(p, i) ==
    LET d == deliv[p][i]
        channel == loc[p].channel
        key == getAccessTokenCacheKey(channel)
    IN  /\ i \in DOMAIN deliv[p]
        /\ d.pc = "tokfetch"
        /\ \E o \in TokenOutcomes :
              CASE o.kind = "error" ->
                     /\ SetDelivery(p, i,
                          [d EXCEPT !.pc = "status",
                                    !.pending =
                                        [status |-> FailedStatusCode(now, o.errcode),
                                         returns |-> NoToken, inTry |-> TRUE]])
                     /\ UNCHANGED memoryTokenCache
                [] o.kind = "malformed" ->
                     /\ SetDelivery(p, i,
                          [d EXCEPT !.pc = "status",
                                    !.pending =
                                        [status |-> FailedStatus(now, "no access token in response"),
                                         returns |-> NoToken, inTry |-> TRUE]])
                     /\ UNCHANGED memoryTokenCache
                [] o.kind = "throw" ->
                     /\ SetDelivery(p, i,
                          [d EXCEPT !.pc = "status",
                                    !.pending =
                                        [status |-> FailedStatus(now, "network request failed"),
                                         returns |-> NoToken, inTry |-> FALSE]])
                     /\ UNCHANGED memoryTokenCache
                [] o.kind = "ok" ->
                     LET tokenData ==
                             [accessToken |-> o.token,
                              expiresAt |-> TokenExpiresAt(now, o.expires_in)]
                     IN  /\ memoryTokenCache' =
                                KvPut(memoryTokenCache, key, tokenData)
                         /\ SetDelivery(p, i,
                              [d EXCEPT !.pc = "kvput",
                                        !.pending = tokenData])
        /\ UNCHANGED <<now, config, configKV, messagesKV, pc, req, loc,
                       save, ret>>

\* await configKV.put(cacheKey, tokenData, ACCESS_TOKEN_TTL): then the
\* valid status is written; a failing write is caught.
TokenKvPut(p, i) ==
    LET d == deliv[p][i]
        channel == loc[p].channel
        key == getAccessTokenCacheKey(channel)
    IN  /\ i \in DOMAIN deliv[p]
        /\ d.pc = "kvput"
        /\ \/ /\ configKV' = KvPutTtl(configKV, key,
                                      KvTokenData(d.pending, memoryTokenCache, key),
                                      ACCESS_TOKEN_TTL, now)
              /\ SetDelivery(p, i,
                   [d EXCEPT !.pc = "status",
                             !.pending =
                                 [status |-> ValidStatus(now, d.pending.expiresAt),
                                  returns |-> d.pending.accessToken,
                                  inTry |-> TRUE]])
           \/ /\ UNCHANGED configKV
              /\ SetDelivery(p, i,
                   [d EXCEPT !.pc = "status",
                             !.pending =
                                 [status |-> FailedStatus(now, "network request failed"),
                                  returns |-> NoToken, inTry |-> FALSE]])
        /\ UNCHANGED <<now, config, messagesKV, memoryTokenCache, pc, req,
                       loc, save, ret>>

\* await updateTokenStatus(channel.id, status): then getAccessToken
\* returns; a failing write inside the try block is caught (and the
\* failed status written), one in the catch clause rejects getAccessToken.
TokenStatusPut(p, i) ==
    LET d == deliv[p][i]
        channel == loc[p].channel
        key == getTokenStatusCacheKey(channel.id)
    IN  /\ i \in DOMAIN deliv[p]
        /\ d.pc = "status"
        /\ \/ /\ configKV' = KvPutTtl(configKV, key, d.pending.status,
                                      TOKEN_STATUS_TTL, now)
              /\ SetDelivery(p, i,
                   ResumeWithToken([d EXCEPT !.pending = Null],
                                   d.pending.returns))
           \/ /\ d.pending.inTry
              /\ UNCHANGED configKV
              /\ SetDelivery(p, i,
                   [d EXCEPT !.pending =
                                 [status |-> FailedStatus(now, "network request failed"),
                                  returns |-> NoToken, inTry |-> FALSE]])
           \/ /\ ~d.pending.inTry
              /\ UNCHANGED configKV
              /\ SetDelivery(p, i, Caught([d EXCEPT !.pending = Null],
                                          "KV error"))
        /\ UNCHANGED <<now, config, messagesKV, memoryTokenCache, pc, req,
                       loc, save, ret>>

\* await doSendCustomMessage / doSendTemplateMessage: the provider answers
\* and send...Message goes on (retry after a credential code, else return).
SendDone(p, i) ==
    LET d == deliv[p][i]
    IN  /\ i \in DOMAIN deliv[p]
        /\ d.pc = "send"
        /\ \E o \in SendOutcomes :
              SetDelivery(p, i,
                  ResumeWithResult(d, doSendMessage(o), loc[p].channel,
                                   memoryTokenCache, now))
        /\ UNCHANGED <<now, config, configKV, messagesKV, memoryTokenCache,
                       pc, req, loc, save, ret>>

\* --------------------------------------------------- collaborators of push
\* generatePushId(): a fresh correlation id for every call.
generatePushId(p) == p

\* appService.getByKey(appKey): the App of the key, or null.
getByKey(apps, appKey) == IF appKey \in DOMAIN apps THEN apps[appKey] ELSE Null

\* openidService.listByApp(appId): the bound recipients in listing order.
listByApp(openids, appId) ==
    IF appId \in DOMAIN openids THEN openids[appId] ELSE <<>>

\* channelService.getById(channelId): the channel, or null.
getById(channels, channelId) ==
    IF channelId \in DOMAIN channels THEN channels[channelId] ELSE Null

\* ------------------------------------------------------------ push service
\* The zero-result PushResult of the two early returns of push.
ZeroResult(pushId) ==
    [pushId |-> pushId, total |-> 0, success |-> 0, failed |-> 0,
     results |-> <<>>]

\* The second early return is taken for these.
NothingToSend(openIds, channel) == Len(openIds) = 0 \/ channel = Null

\* Mutant of TargetOpenIds: the first recipient whatever the mode.
TargetOpenIdsAlwaysFirst(app, openIds) == <<openIds[1]>>

\* Mutant of TargetOpenIds: single mode takes the last recipient.
TargetOpenIdsLast(app, openIds) ==
    IF app.pushMode = "single" THEN <<openIds[Len(openIds)]>> ELSE openIds

\* The targets of a push: the first recipient only in single mode.
TargetOpenIds(app, openIds) ==
    IF app.pushMode = "single" THEN <<openIds[1]>> ELSE openIds

\* Mutant of UseTemplate: the two message types are taken for each other.
UseTemplateSwapped(app) == app.messageType = "normal"

\* The templateId handed to sendTemplateMessage.
TemplateIdSent(app) == app.templateId

\* Whether a delivery goes to the template-message endpoint.
UseTemplate(app) == app.messageType = "template" /\ app.templateId # ""

CountSuccess(results) ==
    Cardinality({ i \in DOMAIN results : results[i].success })

\* Mutant of CountFailed: every result counted as failed.
CountFailedAll(results) == Len(results)

CountFailed(results) ==
    Cardinality({ i \in DOMAIN results : ~results[i].success })

\* The history record push hands to saveMessage.
MessageRecord(l, r, results) ==
    [id |-> l.pushId, direction |-> "outbound", type |-> "push",
     channelId |-> l.channel.id, appId |-> l.app.id,
     title |-> r.message.title, desp |-> r.message.desp,
     results |-> results, createdAt |-> l.createdAt]

\* The value push returns after saveMessage.
PushResultOf(l, results) ==
    [pushId |-> l.pushId, total |-> Len(l.targets),
     success |-> CountSuccess(results), failed |-> CountFailed(results),
     results |-> results]

Returned(value) == [kind |-> "return", value |-> value]

Thrown(error) == [kind |-> "throw", error |-> error]

\* ----------------------------------------------------------- saveMessage
\* Mutant of MessageKey: one key for the body of every message.
MessageKeyShared(id) == <<"msg", "shared">>

MessageKey(id) == <<"msg", id>>

\* get(id): the stored message, or null.
get(kv, id) == KvGet(kv, MessageKey(id))

HasField(m, f) == f \in DOMAIN m /\ m[f] # ""

\* Mutant of IndexUpdates: one App list for the messages of every App.
IndexUpdatesOneAppList(m) ==
    { [key |-> <<"msg_list">>, limit |-> GLOBAL_LIST_LIMIT],
      [key |-> <<"msg_app", "a1">>, limit |-> APP_LIST_LIMIT] }

\* Mutant of IndexUpdates: the channel list is updated whether or not the
\* message has a channelId.
IndexUpdatesChannelAlways(m) ==
    { [key |-> <<"msg_list">>, limit |-> GLOBAL_LIST_LIMIT],
      [key |-> <<"msg_channel", m.channelId>>, limit |-> CHANNEL_LIST_LIMIT] } \cup
    (IF HasField(m, "appId")
     THEN { [key |-> <<"msg_app", m.appId>>, limit |-> APP_LIST_LIMIT] }
     ELSE {}) \cup
    (IF HasField(m, "openId")
     THEN { [key |-> <<"msg_openid", m.openId>>, limit |-> OPENID_LIST_LIMIT] }
     ELSE {})

\* The list indexes saveMessage updates for a message, with their caps.
IndexUpdates(m) ==
    { [key |-> <<"msg_list">>, limit |-> GLOBAL_LIST_LIMIT] } \cup
    (IF HasField(m, "channelId")
     THEN { [key |-> <<"msg_channel", m.channelId>>, limit |-> CHANNEL_LIST_LIMIT] }
     ELSE {}) \cup
    (IF HasField(m, "appId")
     THEN { [key |-> <<"msg_app", m.appId>>, limit |-> APP_LIST_LIMIT] }
     ELSE {}) \cup
    (IF HasField(m, "openId")
     THEN { [key |-> <<"msg_openid", m.openId>>, limit |-> OPENID_LIST_LIMIT] }
     ELSE {})

\* Mutant of updateList: the list is never trimmed.
updateListNoTrim(list, msgId, limit) == <<msgId>> \o list

\* updateList between its read and its write: prepend and trim.
updateList(list, msgId, limit) ==
    LET l == <<msgId>> \o list
    IN  IF Len(l) > limit THEN SubSeq(l, 1, limit) ELSE l

\* Mutant of StartSave: the body write is taken as done without being made.
StartSaveNoBody(m) ==
    [message |-> m, body |-> "done",
     idx |-> [u \in IndexUpdates(m) |-> [pc |-> "get", list |-> <<>>]]]

\* saveMessage up to its await: the body write and every list read issued.
StartSave(m) ==
    [message |-> m, body |-> "put",
     idx |-> [u \in IndexUpdates(m) |-> [pc |-> "get", list |-> <<>>]]]

\* Mutant of AllSaved: the body write is not awaited.
AllSavedIndexesOnly(sv) ==
    \A u \in DOMAIN sv.idx : sv.idx[u].pc = "done"

AllSaved(sv) ==
    sv.body = "done" /\ \A u \in DOMAIN sv.idx : sv.idx[u].pc = "done"

\* ------------------------------------------------------ history queries
\* messagesKV.get(key) || [] of a list index.
IndexList(kv, key) == IF key \in DOMAIN kv THEN kv[key] ELSE <<>>

\* The bodies of the ids that still have one, in the order of ids.
LoadMessages(kv, ids) ==
    LET present == SelectSeq(ids, LAMBDA id : MessageKey(id) \in DOMAIN kv)
    IN  [j \in 1..Len(present) |-> kv[MessageKey(present[j])]]

\* msgs with message m put before the first one that is older (sort by
\* createdAt, newest first; equal times keep their order).
RECURSIVE InsertByCreatedAt(_, _)
InsertByCreatedAt(msgs, m) ==
    IF msgs = <<>> THEN <<m>>
    ELSE IF Head(msgs).createdAt < m.createdAt THEN <<m>> \o msgs
    ELSE <<Head(msgs)>> \o InsertByCreatedAt(Tail(msgs), m)

RECURSIVE SortByCreatedAt(_)
SortByCreatedAt(msgs) ==
    IF msgs = <<>> THEN <<>>
    ELSE InsertByCreatedAt(SortByCreatedAt(SubSeq(msgs, 1, Len(msgs) - 1)),
                           msgs[Len(msgs)])

\* The value of an optional string field of a message ("" when absent).
Field(m, f) == IF f \in DOMAIN m THEN m[f] ELSE ""

\* An optional date of a query that is not given.
NoDate == -1

\* The options of list() with every filter absent.
NoFilters ==
    [page |-> 1, pageSize |-> PAGE_SIZE, channelId |-> "", appId |-> "",
     openId |-> "", direction |-> "", startDate |-> NoDate, endDate |-> NoDate]

\* The key of the index list() reads its ids from: the recipient's, else
\* the App's, else the channel's, else the global one.
ListIndexKey(o) ==
    IF o.openId # "" THEN <<"msg_openid", o.openId>>
    ELSE IF o.appId # "" THEN <<"msg_app", o.appId>>
    ELSE IF o.channelId # "" THEN <<"msg_channel", o.channelId>>
    ELSE <<"msg_list">>

\* The condition under which list() pages the ids without filtering.
ListFastPath(o) ==
    /\ o.direction = ""
    /\ o.startDate = NoDate
    /\ o.endDate = NoDate
    /\ (o.channelId = "" \/ o.openId # "" \/ o.appId # "")
    /\ (o.appId = "" \/ o.openId # "")

\* The filters list() applies to the loaded messages on its slow path.
ListFilter(o, m) ==
    /\ (o.channelId # "" /\ ~(o.openId = "" /\ o.appId = ""))
          => Field(m, "channelId") = o.channelId
    /\ (o.appId # "" /\ o.openId # "") => Field(m, "appId") = o.appId
    /\ o.direction # "" => m.direction = o.direction
    /\ o.startDate # NoDate => m.createdAt >= o.startDate
    /\ o.endDate # NoDate => m.createdAt <= o.endDate

\* seq from its element number first + 1 on, at most n elements
\* (Array.slice(first, first + n)).
Slice(seq, first, n) ==
    SubSeq(seq, first + 1, IF first + n < Len(seq) THEN first + n ELSE Len(seq))

\* list(options): the ids of the chosen index; without further filters a
\* page of the ids is cut and its bodies loaded, otherwise every body is
\* loaded, filtered, sorted by createdAt (newest first) and cut to a page.
MessageList(kv, o) ==
    LET ids == IndexList(kv, ListIndexKey(o))
        startIdx == (o.page - 1) * o.pageSize
    IN  IF ListFastPath(o)
        THEN [messages |-> LoadMessages(kv, Slice(ids, startIdx, o.pageSize)),
              total |-> Len(ids), page |-> o.page, pageSize |-> o.pageSize]
        ELSE LET loaded == LoadMessages(kv, ids)
                 filtered == SortByCreatedAt(
                                 SelectSeq(loaded, LAMBDA m : ListFilter(o, m)))
             IN  [messages |-> Slice(filtered, startIdx, o.pageSize),
                  total |-> Len(filtered), page |-> o.page,
                  pageSize |-> o.pageSize]

\* listByApp(appId, {page, pageSize}): list({page, pageSize, appId}).
MessageListByApp(kv, appId, page, pageSize) ==
    MessageList(kv, [NoFilters EXCEPT !.appId = appId, !.page = page,
                                      !.pageSize = pageSize])

\* ------------------------------------------------------ actions of push
\* push(appKey, message) is called: pushId and createdAt are taken and the
\* App lookup is issued.
PushStart(p) ==
    /\ pc[p] = "idle"
    /\ \E k \in AppKeys, m \in Messages :
          req' = [req EXCEPT ![p] = [appKey |-> k, message |-> m]]
    /\ loc' = [loc EXCEPT ![p] =
                  [pushId |-> generatePushId(p), createdAt |-> now,
                   app |-> Null, openIds |-> <<>>, channel |-> Null,
                   targets |-> <<>>, results |-> <<>>]]
    /\ pc' = [pc EXCEPT ![p] = "getByKey"]
    /\ UNCHANGED <<now, config, configKV, messagesKV, memoryTokenCache,
                   deliv, save, ret>>

\* Mutant of GetByKeyDone: the failed lookup is filed in the history.
GetByKeyDoneRecordsMiss(p) ==
    LET app == getByKey(appsKV, req[p].appKey)
    IN  /\ pc[p] = "getByKey"
        /\ IF app = Null
           THEN /\ pc' = [pc EXCEPT ![p] = "returned"]
                /\ ret' = [ret EXCEPT ![p] = Returned(ZeroResult(loc[p].pushId))]
                /\ messagesKV' = KvPut(messagesKV, <<"msg_list">>,
                                       <<loc[p].pushId>>)
                /\ UNCHANGED loc
           ELSE /\ pc' = [pc EXCEPT ![p] = "fetch"]
                /\ loc' = [loc EXCEPT ![p].app = app]
                /\ UNCHANGED <<ret, messagesKV>>
        /\ UNCHANGED <<now, config, configKV, memoryTokenCache, req, deliv,
                       save>>

\* await appService.getByKey: no App ends the call with the zero result,
\* else the recipient list and the channel are requested.
GetByKeyDone(p) ==
    LET app == getByKey(appsKV, req[p].appKey)
    IN  /\ pc[p] = "getByKey"
        /\ IF app = Null
           THEN /\ pc' = [pc EXCEPT ![p] = "returned"]
                /\ ret' = [ret EXCEPT ![p] = Returned(ZeroResult(loc[p].pushId))]
                /\ UNCHANGED loc
           ELSE /\ pc' = [pc EXCEPT ![p] = "fetch"]
                /\ loc' = [loc EXCEPT ![p].app = app]
                /\ UNCHANGED ret
        /\ UNCHANGED <<now, config, configKV, messagesKV, memoryTokenCache,
                       req, deliv, save>>

\* await Promise.all([listByApp, getById]): nothing to send ends the call
\* with the zero result; else the targets are chosen and every delivery
\* is started (each map callback runs up to its first pending await).
FetchDone(p) ==
    LET app == loc[p].app
        openIds == listByApp(openidsKV, app.id)
        channel == getById(channelsKV, app.channelId)
        targets == TargetOpenIds(app, openIds)
    IN  /\ pc[p] = "fetch"
        /\ IF NothingToSend(openIds, channel)
           THEN /\ pc' = [pc EXCEPT ![p] = "returned"]
                /\ ret' = [ret EXCEPT ![p] = Returned(ZeroResult(loc[p].pushId))]
                /\ loc' = [loc EXCEPT ![p].openIds = openIds,
                                      ![p].channel = channel]
                /\ UNCHANGED deliv
           ELSE /\ pc' = [pc EXCEPT ![p] = "deliver"]
                /\ loc' = [loc EXCEPT ![p].openIds = openIds,
                                      ![p].channel = channel,
                                      ![p].targets = targets]
                /\ deliv' = [deliv EXCEPT ![p] =
                      [i \in 1..Len(targets) |->
                          CallGetAccessToken(
                              NewDelivery(targets[i].openId, UseTemplate(app)),
                              channel, FALSE, memoryTokenCache, now)]]
                /\ UNCHANGED ret
        /\ UNCHANGED <<now, config, configKV, messagesKV, memoryTokenCache,
                       req, save>>

\* Mutant of Aggregate: the results are listed last target first.
AggregateReversed(p) ==
    LET n == Len(deliv[p])
        results == [i \in DOMAIN deliv[p] |-> deliv[p][n + 1 - i].outcome]
    IN  /\ pc[p] = "deliver"
        /\ \A i \in DOMAIN deliv[p] : deliv[p][i].pc = "done"
        /\ loc' = [loc EXCEPT ![p].results = results]
        /\ save' = [save EXCEPT ![p] =
                       StartSave(MessageRecord(loc[p], req[p], results))]
        /\ pc' = [pc EXCEPT ![p] = "save"]
        /\ UNCHANGED <<now, config, configKV, messagesKV, memoryTokenCache,
                       req, deliv, ret>>

\* Mutant of Aggregate: Promise.all(pushPromises) resolves only when every
\* delivery succeeded.
AggregateOnSuccessOnly(p) ==
    LET results == [i \in DOMAIN deliv[p] |-> deliv[p][i].outcome]
    IN  /\ pc[p] = "deliver"
        /\ \A i \in DOMAIN deliv[p] :
              deliv[p][i].pc = "done" /\ deliv[p][i].outcome.success
        /\ loc' = [loc EXCEPT ![p].results = results]
        /\ save' = [save EXCEPT ![p] =
                       StartSave(MessageRecord(loc[p], req[p], results))]
        /\ pc' = [pc EXCEPT ![p] = "save"]
        /\ UNCHANGED <<now, config, configKV, messagesKV, memoryTokenCache,
                       req, deliv, ret>>

\* await Promise.all(pushPromises) resolves: the results are counted, the
\* history record is built and saveMessage is called.
Aggregate(p) ==
    LET results == [i \in DOMAIN deliv[p] |-> deliv[p][i].outcome]
    IN  /\ pc[p] = "deliver"
        /\ \A i \in DOMAIN deliv[p] : deliv[p][i].pc = "done"
        /\ loc' = [loc EXCEPT ![p].results = results]
        /\ save' = [save EXCEPT ![p] =
                       StartSave(MessageRecord(loc[p], req[p], results))]
        /\ pc' = [pc EXCEPT ![p] = "save"]
        /\ UNCHANGED <<now, config, configKV, messagesKV, memoryTokenCache,
                       req, deliv, ret>>

\* What a completed write of saveMessage means for the push that awaits
\* it: Promise.all rejects at the first failure and resolves when every
\* write is done; writes still pending go on after a rejection.
SaveSettles(p, sv, failed) ==
    IF pc[p] # "save"
    THEN UNCHANGED <<pc, ret>>
    ELSE IF failed
    THEN /\ pc' = [pc EXCEPT ![p] = "threw"]
         /\ ret' = [ret EXCEPT ![p] = Thrown("KV error")]
    ELSE IF AllSaved(sv)
    THEN /\ pc' = [pc EXCEPT ![p] = "returned"]
         /\ ret' = [ret EXCEPT ![p] =
                       Returned(PushResultOf(loc[p], loc[p].results))]
    ELSE UNCHANGED <<pc, ret>>

\* messagesKV.put(MESSAGE(id), message) completes.
BodyPut(p) ==
    /\ save[p] # Null
    /\ save[p].body = "put"
    /\ \/ LET sv == [save[p] EXCEPT !.body = "done"]
          IN  /\ messagesKV' = KvPut(messagesKV, MessageKey(sv.message.id),
                                     sv.message)
              /\ save' = [save EXCEPT ![p] = sv]
              /\ SaveSettles(p, sv, FALSE)
       \/ LET sv == [save[p] EXCEPT !.body = "failed"]
          IN  /\ UNCHANGED messagesKV
              /\ save' = [save EXCEPT ![p] = sv]
              /\ SaveSettles(p, sv, TRUE)
    /\ UNCHANGED <<now, config, configKV, memoryTokenCache, req, loc, deliv>>

\* updateList: await messagesKV.get(key) completes; the id is prepended,
\* the list trimmed and the write issued.
ListGet(p, u) ==
    /\ save[p] # Null
    /\ u \in DOMAIN save[p].idx
    /\ save[p].idx[u].pc = "get"
    /\ \/ LET list == IF u.key \in DOMAIN messagesKV
                      THEN messagesKV[u.key] ELSE <<>>
              sv == [save[p] EXCEPT
                        !.idx[u] = [pc |-> "put",
                                    list |-> updateList(list, save[p].message.id,
                                                        u.limit)]]
          IN  /\ save' = [save EXCEPT ![p] = sv]
              /\ SaveSettles(p, sv, FALSE)
       \/ LET sv == [save[p] EXCEPT !.idx[u].pc = "failed"]
          IN  /\ save' = [save EXCEPT ![p] = sv]
              /\ SaveSettles(p, sv, TRUE)
    /\ UNCHANGED <<now, config, configKV, messagesKV, memoryTokenCache,
                   req, loc, deliv>>

\* updateList: await messagesKV.put(key, list) completes (the local list is
\* gone once updateList has settled).
ListPut(p, u) ==
    /\ save[p] # Null
    /\ u \in DOMAIN save[p].idx
    /\ save[p].idx[u].pc = "put"
    /\ \/ LET sv == [save[p] EXCEPT !.idx[u] = [pc |-> "done", list |-> <<>>]]
          IN  /\ messagesKV' = KvPut(messagesKV, u.key, save[p].idx[u].list)
              /\ save' = [save EXCEPT ![p] = sv]
              /\ SaveSettles(p, sv, FALSE)
       \/ LET sv == [save[p] EXCEPT !.idx[u] = [pc |-> "failed", list |-> <<>>]]
          IN  /\ UNCHANGED messagesKV
              /\ save' = [save EXCEPT ![p] = sv]
              /\ SaveSettles(p, sv, TRUE)
    /\ UNCHANGED <<now, config, configKV, memoryTokenCache, req, loc, deliv>>

\* Every list index a message of the model can be filed under.
AllIndexUpdates ==
    UNION { IndexUpdates([channelId |-> c, appId |-> a, openId |-> o]) :
                c \in {"c1"}, a \in {"a1", "a2"}, o \in {"o1"} }

Next ==
    \E p \in Pushes :
        \/ PushStart(p)
        \/ GetByKeyDone(p)
        \/ FetchDone(p)
        \/ \E i \in 1..MaxRecipients :
              \/ TokenKvGet(p, i)
              \/ TokenFetch(p, i)
              \/ TokenKvPut(p, i)
              \/ TokenStatusPut(p, i)
              \/ SendDone(p, i)
        \/ Aggregate(p)
        \/ BodyPut(p)
        \/ \E u \in AllIndexUpdates :
              \/ ListGet(p, u)
              \/ ListPut(p, u)

Spec == Init /\ [][Next]_vars

\* Every call push or one of its deliveries awaits is answered in the end
\* (by a value or by a rejection); nothing obliges a caller to call push.
CallsAnswered ==
    \A p \in {"p1"} :
        /\ WF_vars(GetByKeyDone(p))
        /\ WF_vars(FetchDone(p))
        /\ \A i \in 1..MaxRecipients :
              /\ WF_vars(TokenKvGet(p, i))
              /\ WF_vars(TokenFetch(p, i))
              /\ WF_vars(TokenKvPut(p, i))
              /\ WF_vars(TokenStatusPut(p, i))
              /\ WF_vars(SendDone(p, i))
        /\ WF_vars(Aggregate(p))
        /\ WF_vars(BodyPut(p))
        /\ \A u \in AllIndexUpdates :
              WF_vars(ListGet(p, u)) /\ WF_vars(ListPut(p, u))

\* push where every awaited call is answered.
SpecLive == Init /\ [][Next]_vars /\ CallsAnswered

\* ------------------------------------------ the credential cache over time
\* One step of the clock: half of the time a token of 7200 s stays usable.
TickMs == 3450 * MS_PER_SECOND

\* Date.now() moves on between two steps of the program: once in a run,
\* by up to MaxTicks clock steps.
Tick ==
    /\ now = 0
    /\ \E k \in 1..MaxTicks : now' = now + k * TickMs
    /\ UNCHANGED <<config, configKV, messagesKV, memoryTokenCache, pc, req,
                   loc, deliv, save, ret>>

\* Channels of the credential cache: "c1" and "c2" have the same appId
\* under different ids and names, "c3" has an appId of its own.
TokenChannels ==
    { [id |-> "c1", name |-> "n1",
       config |-> [appId |-> "wx1", appSecret |-> "s1"]],
      [id |-> "c2", name |-> "n2",
       config |-> [appId |-> "wx1", appSecret |-> "s1"]],
      [id |-> "c3", name |-> "n3",
       config |-> [appId |-> "wx2", appSecret |-> "s2"]] }

\* The App of the credential cache runs: subscribe mode, so that its
\* deliveries call getAccessToken concurrently, through any of the channels.
TokenApps ==
    { [id |-> "a1", key |-> "k1", channelId |-> c.id, pushMode |-> "subscribe",
       messageType |-> "normal", templateId |-> ""] : c \in TokenChannels }

\* The entries earlier calls for the appIds in ids have left in a tier.
PresetCache(ids) ==
    [k \in { <<"wechat_access_token", a>> : a \in ids } |-> PresetEntry(k[2])]

\* The key-value tier of PresetCache(ids), written at time 0.
PresetKV(ids) ==
    [k \in DOMAIN PresetCache(ids) |->
        [value |-> PresetCache(ids)[k],
         ttlAt |-> 0 + ACCESS_TOKEN_TTL * MS_PER_SECOND]]

\* Start of the credential cache runs: either tier may hold the entries of
\* earlier calls (for both appIds), the provider hands out two lifetimes
\* and answers a send with success or with "token expired".
InitToken ==
    /\ now = 0
    /\ provider = [lifetimes |-> ExpiresInValues,
                   sendCodes |-> {0, ERR_TOKEN_EXPIRED}]
    /\ \E a \in TokenApps : appsKV = [k \in AppKeys |-> IF k = "k1" THEN a ELSE Null]
    /\ openidsKV = [a \in {"a1"} |-> [i \in 1..MaxRecipients |->
                                        [openId |-> MaxRecipients + 1 - i]]]
    /\ channelsKV = [k \in { c.id : c \in TokenChannels } |->
                        CHOOSE c \in TokenChannels : c.id = k]
    /\ configKV \in { <<>>, PresetKV({"wx1", "wx2"}) }
    /\ messagesKV = <<>>
    /\ memoryTokenCache \in { <<>>, PresetCache({"wx1", "wx2"}) }
    /\ NoCalls({"p1"})

\* The calls of getAccessToken made by the deliveries of a push, and the
\* clock; the runs end when every delivery has settled.
NextToken ==
    \/ Tick
    \/ \E p \in Pushes :
          \/ PushStart(p)
          \/ GetByKeyDone(p)
          \/ FetchDone(p)
          \/ \E i \in 1..MaxRecipients :
                \/ TokenKvGet(p, i)
                \/ TokenFetch(p, i)
                \/ TokenKvPut(p, i)
                \/ TokenStatusPut(p, i)
                \/ SendDone(p, i)

SpecToken == InitToken /\ [][NextToken]_vars

\* ------------------------------------------- one call after the other
\* Two pushes of a single-mode App on channel "c1": each makes one call of
\* getAccessToken, at the same time as the other's or after the other's
\* has ended, against tiers that are empty or hold the entries of earlier
\* calls.
TierApp ==
    [id |-> "a1", key |-> "k1", channelId |-> "c1", pushMode |-> "single",
     messageType |-> "normal", templateId |-> ""]

InitTiers ==
    /\ now = 0
    /\ provider = [lifetimes |-> ExpiresInValues,
                   sendCodes |-> {0, ERR_TOKEN_EXPIRED}]
    /\ appsKV = [k \in AppKeys |-> IF k = "k1" THEN TierApp ELSE Null]
    /\ openidsKV = [a \in {"a1"} |-> <<[openId |-> 1]>>]
    /\ channelsKV = [k \in {"c1"} |->
                        CHOOSE c \in TokenChannels : c.id = "c1"]
    /\ configKV \in { <<>>, PresetKV({"wx1"}) }
    /\ messagesKV = <<>>
    /\ memoryTokenCache \in { <<>>, PresetCache({"wx1"}) }
    /\ NoCalls({"p1", "p2"})

NextTiers ==
    \/ Tick
    \/ \E p \in Pushes :
          \/ PushStart(p)
          \/ GetByKeyDone(p)
          \/ FetchDone(p)
          \/ \E i \in 1..MaxRecipients :
                \/ TokenKvGet(p, i)
                \/ TokenFetch(p, i)
                \/ TokenKvPut(p, i)
                \/ TokenStatusPut(p, i)
                \/ SendDone(p, i)

SpecTiers == InitTiers /\ [][NextTiers]_vars

\* ------------------------------------------------- the history of two Apps
\* Two Apps with a recipient each, on one channel. The channel has no
\* appSecret: every delivery fails at once and the push goes on to the
\* history.
HistoryApps ==
    [k \in AppKeys |->
        IF k = "kx" THEN Null
        ELSE [id |-> IF k = "k1" THEN "a1" ELSE "a2", key |-> k,
              channelId |-> "c1", pushMode |-> "single",
              messageType |-> "normal", templateId |-> ""]]

InitHistory ==
    /\ now = 0
    /\ provider = [lifetimes |-> {7200}, sendCodes |-> {0}]
    /\ appsKV = HistoryApps
    /\ openidsKV = [a \in {"a1", "a2"} |-> <<[openId |-> 1]>>]
    /\ channelsKV = [k \in {"c1"} |->
                        [id |-> "c1", name |-> "n1",
                         config |-> [appId |-> "wx1", appSecret |-> ""]]]
    /\ configKV = <<>>
    /\ messagesKV = <<>>
    /\ memoryTokenCache = <<>>
    /\ NoCalls({"p1", "p2"})

\* Two calls of push, concurrent or one after the other, up to the end of
\* their history writes.
NextHistory ==
    \E p \in Pushes :
        \/ PushStart(p)
        \/ GetByKeyDone(p)
        \/ FetchDone(p)
        \/ Aggregate(p)
        \/ BodyPut(p)
        \/ \E u \in AllIndexUpdates :
              \/ ListGet(p, u)
              \/ ListPut(p, u)

SpecHistory == InitHistory /\ [][NextHistory]_vars

\* --------------------------------------------------- saveMessage by itself
\* The records callers hand to saveMessage: the record of a push (channel
\* and App set) and an inbound record of one recipient (openId set).
SaveMessages(id) ==
    { [id |-> id, direction |-> "outbound", type |-> "push",
       channelId |-> "c1", appId |-> "a1", openId |-> "",
       title |-> "T", desp |-> "D", results |-> <<>>, createdAt |-> 0],
      [id |-> id, direction |-> "inbound", type |-> "text",
       channelId |-> "", appId |-> "", openId |-> "o1",
       title |-> "T", desp |-> "D", results |-> <<>>, createdAt |-> 0] }

\* messageService.saveMessage(message) is called: the body write and the
\* read of every index of the message are issued.
SaveMessageCall(p) ==
    /\ pc[p] = "idle"
    /\ \E m \in SaveMessages(p) : save' = [save EXCEPT ![p] = StartSave(m)]
    /\ pc' = [pc EXCEPT ![p] = "saveMessage"]
    /\ UNCHANGED <<now, config, configKV, messagesKV, memoryTokenCache,
                   req, loc, deliv, ret>>

\* The ids of n earlier messages, newest first.
OldIds(n) == [j \in 1..n |-> ToString(n + 1 - j)]

\* The indexes of a deployment that has run for long (cleanup() has
\* deleted the old bodies, the index entries stay): every index is short
\* of its cap by d entries.
OldHistory(d) ==
    [k \in { u.key : u \in IndexUpdates([channelId |-> "c1", appId |-> "a1",
                                         openId |-> "o1"]) } |->
        OldIds((CHOOSE u \in AllIndexUpdates : u.key = k).limit - d)]

\* Two callers on an empty history, or one caller on a history whose
\* indexes are full or one entry short of full.
InitSave ==
    /\ now = 0
    /\ provider = [lifetimes |-> {7200}, sendCodes |-> {0}]
    /\ appsKV = HistoryApps
    /\ openidsKV = [a \in {"a1", "a2"} |-> <<[openId |-> 1]>>]
    /\ channelsKV = [k \in {"c1"} |->
                        [id |-> "c1", name |-> "n1",
                         config |-> [appId |-> "wx1", appSecret |-> ""]]]
    /\ configKV = <<>>
    /\ memoryTokenCache = <<>>
    /\ \/ messagesKV = <<>> /\ NoCalls({"s1", "s2"})
       \/ messagesKV \in {OldHistory(0), OldHistory(1)} /\ NoCalls({"s1"})

NextSave ==
    \E p \in Pushes :
        \/ SaveMessageCall(p)
        \/ BodyPut(p)
        \/ \E u \in AllIndexUpdates :
              \/ ListGet(p, u)
              \/ ListPut(p, u)

SpecSave == InitSave /\ [][NextSave]_vars

\* ------------------------------------------------------- history queries
\* kv after saveMessage(m) has run to its end with no other call between
\* its reads and its writes.
SavedAlone(kv, m) ==
    LET ups == IndexUpdates(m)
        keys == { u.key : u \in ups }
    IN  [k \in DOMAIN kv \cup keys \cup {MessageKey(m.id)} |->
            IF k = MessageKey(m.id) THEN m
            ELSE IF k \in keys
            THEN updateList(IndexList(kv, k), m.id,
                            (CHOOSE u \in ups : u.key = k).limit)
            ELSE kv[k]]

\* The messages a history is made of: of either direction, of one of two
\* channels and two Apps, with or without a recipient, of one of two times.
QueryMessages(id) ==
    { [id |-> id, direction |-> d, type |-> "text", channelId |-> c,
       appId |-> a, openId |-> o, title |-> "T", desp |-> "D",
       results |-> <<>>, createdAt |-> t] :
        d \in {"inbound", "outbound"}, c \in {"c1", "c2"},
        a \in {"a1", "a2"}, o \in {"", "o1"}, t \in {1, 2} }

\* The options a caller gives to list().
QueryOptions ==
    [page : {1, 2}, pageSize : {1, PAGE_SIZE}, channelId : {"", "c1"},
     appId : {"", "a1"}, openId : {"", "o1"}, direction : {"", "inbound"},
     startDate : {NoDate, 2}, endDate : {NoDate, 1}]

\* A history of two messages saved one after the other, and one caller.
InitQuery ==
    /\ now = 2
    /\ provider = [lifetimes |-> {7200}, sendCodes |-> {0}]
    /\ appsKV = HistoryApps
    /\ openidsKV = [a \in {"a1", "a2"} |-> <<[openId |-> 1]>>]
    /\ channelsKV = [k \in {"c1"} |->
                        [id |-> "c1", name |-> "n1",
                         config |-> [appId |-> "wx1", appSecret |-> ""]]]
    /\ configKV = <<>>
    /\ memoryTokenCache = <<>>
    /\ \E m1 \in QueryMessages("1") : \E m2 \in QueryMessages("2") :
          messagesKV = SavedAlone(SavedAlone(<<>>, m1), m2)
    /\ NoCalls({"q1"})

\* messageService.list(options) is called and returns (nothing writes to
\* the history between its reads).
ListCall(p) ==
    /\ pc[p] = "idle"
    /\ \E o \in QueryOptions :
          /\ req' = [req EXCEPT ![p] = o]
          /\ ret' = [ret EXCEPT ![p] = Returned(MessageList(messagesKV, o))]
    /\ pc' = [pc EXCEPT ![p] = "listed"]
    /\ UNCHANGED <<now, config, configKV, messagesKV, memoryTokenCache,
                   loc, deliv, save>>

NextQuery == \E p \in Pushes : ListCall(p)

SpecQuery == InitQuery /\ [][NextQuery]_vars

\* ------------------------------------------- get, delete and cleanup
DAY_MS == 24 * 60 * 60 * 1000

\* The retention periods cleanup is called with, in days (the clock of the
\* model counts milliseconds in 32 bits, which ends after 24 days).
RetentionDays == {1, 2}

MESSAGE_PREFIX == "msg"

\* Date.now() when the run starts: far enough on for messages older than a
\* retention period to exist.
RetentionStart == 4 * DAY_MS

\* Mutant of IsExpired: a message created at the cutoff is expired too.
IsExpiredAtCutoff(data, cutoff) == data.createdAt <= cutoff

\* cleanup's test of a message it fetched: created before the cutoff.
IsExpired(data, cutoff) == data.createdAt < cutoff

\* The callers of saveMessage, delete and cleanup.
Savers == {"s1"}

Deleters == {"d1"}

Cleaners == {"g1"}

\* The message a caller saves at time t.
FreshMessage(id, t) ==
    [id |-> id, direction |-> "inbound", type |-> "text", channelId |-> "",
     appId |-> "", openId |-> "o1", title |-> "T", desp |-> "D",
     results |-> <<>>, createdAt |-> t]

\* The record of an earlier push, created at time t.
StoredMessage(id, t) ==
    [id |-> id, direction |-> "outbound", type |-> "push", channelId |-> "c1",
     appId |-> "a1", title |-> "T", desp |-> "D", results |-> <<>>,
     createdAt |-> t]

\* Two messages saved earlier, each two or three days after time 0; a
\* caller of saveMessage, one of delete and one of cleanup.
InitRetention ==
    /\ now = RetentionStart
    /\ provider = [lifetimes |-> {7200}, sendCodes |-> {0}]
    /\ appsKV = HistoryApps
    /\ openidsKV = [a \in {"a1", "a2"} |-> <<[openId |-> 1]>>]
    /\ channelsKV = [k \in {"c1"} |->
                        [id |-> "c1", name |-> "n1",
                         config |-> [appId |-> "wx1", appSecret |-> ""]]]
    /\ configKV = <<>>
    /\ memoryTokenCache = <<>>
    /\ \E t1 \in {2 * DAY_MS, 3 * DAY_MS} : \E t2 \in {2 * DAY_MS, 3 * DAY_MS} :
          messagesKV = SavedAlone(SavedAlone(<<>>, StoredMessage("1", t1)),
                                  StoredMessage("2", t2))
    /\ NoCalls(Savers \cup Deleters \cup Cleaners)

\* Date.now() moves on by whole days, once in a run.
DayPasses ==
    /\ now = RetentionStart
    /\ \E k \in 1..MaxTicks : now' = now + k * DAY_MS
    /\ UNCHANGED <<config, configKV, messagesKV, memoryTokenCache, pc, req,
                   loc, deliv, save, ret>>

\* messageService.saveMessage(m) is called for a message created now.
SaveFresh(p) ==
    /\ pc[p] = "idle"
    /\ save' = [save EXCEPT ![p] = StartSave(FreshMessage(p, now))]
    /\ pc' = [pc EXCEPT ![p] = "saveMessage"]
    /\ UNCHANGED <<now, config, configKV, messagesKV, memoryTokenCache,
                   req, loc, deliv, ret>>

\* delete(id) is called: get(id) is issued.
DeleteCall(p) ==
    /\ pc[p] = "idle"
    /\ \E id \in {"1", "2", "s1", "none"} :
          loc' = [loc EXCEPT ![p] = [key |-> MessageKey(id)]]
    /\ pc' = [pc EXCEPT ![p] = "delete_get"]
    /\ UNCHANGED <<now, config, configKV, messagesKV, memoryTokenCache,
                   req, deliv, save, ret>>

\* delete: await this.get(id) completes; false is returned when there is
\* no such message, else messagesKV.delete is issued.
DeleteGet(p) ==
    /\ pc[p] = "delete_get"
    /\ \/ IF KvGet(messagesKV, loc[p].key) = Null
          THEN /\ pc' = [pc EXCEPT ![p] = "returned"]
               /\ ret' = [ret EXCEPT ![p] = Returned(FALSE)]
          ELSE /\ pc' = [pc EXCEPT ![p] = "delete_delete"]
               /\ UNCHANGED ret
       \/ /\ pc' = [pc EXCEPT ![p] = "threw"]
          /\ ret' = [ret EXCEPT ![p] = Thrown("KV error")]
    /\ UNCHANGED <<now, config, configKV, messagesKV, memoryTokenCache,
                   req, loc, deliv, save>>

\* delete: await messagesKV.delete(MESSAGE(id)) completes; true is returned.
DeleteDone(p) ==
    /\ pc[p] = "delete_delete"
    /\ \/ /\ messagesKV' = KvDelete(messagesKV, loc[p].key)
          /\ pc' = [pc EXCEPT ![p] = "returned"]
          /\ ret' = [ret EXCEPT ![p] = Returned(TRUE)]
       \/ /\ UNCHANGED messagesKV
          /\ pc' = [pc EXCEPT ![p] = "threw"]
          /\ ret' = [ret EXCEPT ![p] = Thrown("KV error")]
    /\ UNCHANGED <<now, config, configKV, memoryTokenCache, req, loc, deliv,
                   save>>

\* cleanup(retentionDays) is called: listAll(MESSAGE_PREFIX) is issued.
CleanupCall(p) ==
    /\ pc[p] = "idle"
    /\ \E days \in RetentionDays :
          loc' = [loc EXCEPT ![p] =
                     [retentionDays |-> days, keys |-> {}, todo |-> {},
                      key |-> <<>>, cutoff |-> 0, count |-> 0]]
    /\ pc' = [pc EXCEPT ![p] = "cleanup_list"]
    /\ UNCHANGED <<now, config, configKV, messagesKV, memoryTokenCache,
                   req, deliv, save, ret>>

\* cleanup's loop goes on with the keys still to do: the get of one of them
\* is issued, or count is returned when none is left.
CleanupGoesOn(p, l) ==
    IF l.todo = {}
    THEN /\ loc' = [loc EXCEPT ![p] = l]
         /\ pc' = [pc EXCEPT ![p] = "returned"]
         /\ ret' = [ret EXCEPT ![p] = Returned(l.count)]
    ELSE /\ \E k \in l.todo :
               loc' = [loc EXCEPT ![p] =
                          [l EXCEPT !.key = k, !.todo = l.todo \ {k}]]
         /\ pc' = [pc EXCEPT ![p] = "cleanup_get"]
         /\ UNCHANGED ret

\* cleanup: await listAll completes; the cutoff is taken from Date.now().
CleanupListed(p) ==
    /\ pc[p] = "cleanup_list"
    /\ \/ CleanupGoesOn(p, [loc[p] EXCEPT
                                !.keys = KvListAll(messagesKV, MESSAGE_PREFIX),
                                !.todo = KvListAll(messagesKV, MESSAGE_PREFIX),
                                !.cutoff = now - loc[p].retentionDays * DAY_MS])
       \/ /\ pc' = [pc EXCEPT ![p] = "threw"]
          /\ ret' = [ret EXCEPT ![p] = Thrown("KV error")]
          /\ UNCHANGED loc
    /\ UNCHANGED <<now, config, configKV, messagesKV, memoryTokenCache,
                   req, deliv, save>>

\* cleanup: await messagesKV.get(key) completes; the delete of an expired
\* message is issued, any other key is passed over.
CleanupGet(p) ==
    /\ pc[p] = "cleanup_get"
    /\ \/ LET data == KvGet(messagesKV, loc[p].key)
          IN  IF data # Null /\ IsExpired(data, loc[p].cutoff)
              THEN /\ pc' = [pc EXCEPT ![p] = "cleanup_delete"]
                   /\ UNCHANGED <<loc, ret>>
              ELSE CleanupGoesOn(p, loc[p])
       \/ /\ pc' = [pc EXCEPT ![p] = "threw"]
          /\ ret' = [ret EXCEPT ![p] = Thrown("KV error")]
          /\ UNCHANGED loc
    /\ UNCHANGED <<now, config, configKV, messagesKV, memoryTokenCache,
                   req, deliv, save>>

\* cleanup: await messagesKV.delete(key) completes; it is counted.
CleanupDelete(p) ==
    /\ pc[p] = "cleanup_delete"
    /\ \/ /\ messagesKV' = KvDelete(messagesKV, loc[p].key)
          /\ CleanupGoesOn(p, [loc[p] EXCEPT !.count = loc[p].count + 1])
       \/ /\ UNCHANGED <<messagesKV, loc>>
          /\ pc' = [pc EXCEPT ![p] = "threw"]
          /\ ret' = [ret EXCEPT ![p] = Thrown("KV error")]
    /\ UNCHANGED <<now, config, configKV, memoryTokenCache, req, deliv, save>>

NextRetention ==
    \/ DayPasses
    \/ \E p \in Savers :
          \/ SaveFresh(p)
          \/ BodyPut(p)
          \/ \E u \in AllIndexUpdates :
                \/ ListGet(p, u)
                \/ ListPut(p, u)
    \/ \E p \in Deleters :
          \/ DeleteCall(p)
          \/ DeleteGet(p)
          \/ DeleteDone(p)
    \/ \E p \in Cleaners :
          \/ CleanupCall(p)
          \/ CleanupListed(p)
          \/ CleanupGet(p)
          \/ CleanupDelete(p)

SpecRetention == InitRetention /\ [][NextRetention]_vars

\* ------------------------------------------------- webhook entry points
\* ErrorCodes of the push service.
MISSING_TITLE == 40001

INVALID_PARAM == 40002

INVALID_CONFIG == 40003

KEY_NOT_FOUND == 40401

NO_SUBSCRIBERS == 40403

OPENID_NOT_FOUND == 40404

RATE_LIMIT_EXCEEDED == 42901

INTERNAL_ERROR == 50001

\* getHttpStatus of the .send route.
getHttpStatusSend(errorCode) ==
    CASE errorCode = KEY_NOT_FOUND -> 404
      [] errorCode = RATE_LIMIT_EXCEEDED -> 429
      [] errorCode \in {MISSING_TITLE, INVALID_PARAM} -> 400
      [] errorCode \in {INVALID_CONFIG, OPENID_NOT_FOUND} -> 500
      [] OTHER -> 500

\* getHttpStatus of the topic route.
getHttpStatusTopic(errorCode) ==
    CASE errorCode = KEY_NOT_FOUND -> 404
      [] errorCode = RATE_LIMIT_EXCEEDED -> 429
      [] errorCode \in {NO_SUBSCRIBERS, MISSING_TITLE, INVALID_PARAM} -> 400
      [] errorCode = INVALID_CONFIG -> 500
      [] OTHER -> 500

\* A pathname of the .send route: "/{key}.send" (form "dot"), "/send/{key}"
\* (form "slash") or anything else (form "other").
Pathname(form, key) == [form |-> form, key |-> key]

\* extractSendKey(pathname): the key of either pattern, which takes at
\* least one character; null when neither matches.
extractSendKey(pathname) ==
    IF pathname.form \in {"dot", "slash"} /\ pathname.key # ""
    THEN pathname.key
    ELSE Undefined

\* sanitizeInput(text): some function of the text.
sanitizeInput(text) == <<"sanitized", text>>

\* The response of a handler: HTTP status, the code of the envelope
\* (NoErrorCode when there is no body) and its data.
Response(status, code, data) == [status |-> status, code |-> code, data |-> data]

errorResponse(status, code) == Response(status, code, Null)

\* The results pushBySendKey may give: a success, or a failure with one of
\* the codes the route's getHttpStatus names.
SendKeyResults ==
    { [kind |-> "result", success |-> TRUE, error |-> NoErrorCode,
       msgId |-> "msgid"] } \cup
    { [kind |-> "result", success |-> FALSE, error |-> c, msgId |-> Undefined] :
        c \in {KEY_NOT_FOUND, RATE_LIMIT_EXCEEDED, INVALID_CONFIG,
               OPENID_NOT_FOUND} } \cup
    { [kind |-> "throw"] }

\* The results pushByTopicKey may give: a PushResult of one or two
\* deliveries, or a failure with one of the codes the route's
\* getHttpStatus names.
TopicKeyResults ==
    { [kind |-> "result", error |-> NoErrorCode, total |-> n,
       success |-> n - f, failed |-> f,
       results |-> [i \in 1..n |-> [openId |-> i, success |-> i > f]]] :
        n \in 1..2, f \in 0..1 } \cup
    { [kind |-> "result", error |-> c, total |-> 0, success |-> 0,
       failed |-> 0, results |-> <<>>] :
        c \in {KEY_NOT_FOUND, RATE_LIMIT_EXCEEDED, NO_SUBSCRIBERS,
               INVALID_CONFIG} } \cup
    { [kind |-> "throw"] }

\* The requests a caller may make: OPTIONS, GET with query parameters, POST
\* with query parameters or a JSON body; the title (and with it the desp)
\* in the query, in the body, or nowhere.
WebhookRequests ==
    { [method |-> m, pathname |-> Pathname("dot", k),
       query |-> [title |-> IF w = "query" THEN "T" ELSE "",
                  desp |-> IF w = "query" THEN d ELSE ""],
       body |-> [title |-> IF w = "body" THEN "T" ELSE "",
                 desp |-> IF w = "body" THEN d ELSE ""]] :
        m \in {"OPTIONS", "GET", "POST"}, k \in {"k1", ""},
        w \in {"query", "body", "none"}, d \in {"", "D"} }

\* Two requests to one of the two routes, whose push service gives one
\* result to both.
InitWebhook ==
    /\ now = 0
    /\ \/ \E r \in SendKeyResults :
             provider = [lifetimes |-> {7200}, sendCodes |-> {0},
                         route |-> "send", result |-> r]
       \/ \E r \in TopicKeyResults :
             provider = [lifetimes |-> {7200}, sendCodes |-> {0},
                         route |-> "topic", result |-> r]
    /\ appsKV = HistoryApps
    /\ openidsKV = [a \in {"a1", "a2"} |-> <<[openId |-> 1]>>]
    /\ channelsKV = [k \in {"c1"} |->
                        [id |-> "c1", name |-> "n1",
                         config |-> [appId |-> "wx1", appSecret |-> ""]]]
    /\ configKV = <<>>
    /\ messagesKV = <<>>
    /\ memoryTokenCache = <<>>
    /\ NoCalls({"w1", "w2"})

\* The handler answers request r of caller p at once.
Responds(p, r, response) ==
    /\ req' = [req EXCEPT ![p] = r]
    /\ pc' = [pc EXCEPT ![p] = "responded"]
    /\ ret' = [ret EXCEPT ![p] = Returned(response)]
    /\ UNCHANGED loc

\* The handler calls the push service for request r of caller p.
InvokesService(p, r, key, title, desp) ==
    /\ req' = [req EXCEPT ![p] = r]
    /\ pc' = [pc EXCEPT ![p] = "service"]
    /\ loc' = [loc EXCEPT ![p] = [key |-> key, title |-> title, desp |-> desp]]
    /\ UNCHANGED ret

\* onRequest of the .send route, up to its await of pushBySendKey.
SendRequest(p) ==
    /\ provider.route = "send"
    /\ pc[p] = "idle"
    /\ \E r \in WebhookRequests :
          LET sendKey == extractSendKey(r.pathname)
              title == r.query.title
              desp == r.query.desp
          IN  IF r.method = "OPTIONS"
              THEN Responds(p, r, Response(204, NoErrorCode, Null))
              ELSE IF r.method # "GET"
              THEN Responds(p, r, errorResponse(405, INVALID_PARAM))
              ELSE IF sendKey = Undefined
              THEN Responds(p, r, errorResponse(400, INVALID_PARAM))
              ELSE IF title = ""
              THEN Responds(p, r, errorResponse(400, MISSING_TITLE))
              ELSE InvokesService(p, r, sendKey, title, desp)
    /\ UNCHANGED <<now, config, configKV, messagesKV, memoryTokenCache,
                   deliv, save>>

\* onRequest of the .send route after pushBySendKey settled.
SendServiceDone(p) ==
    LET result == provider.result
    IN  /\ provider.route = "send"
        /\ pc[p] = "service"
        /\ pc' = [pc EXCEPT ![p] = "responded"]
        /\ ret' = [ret EXCEPT ![p] = Returned(
              IF result.kind = "throw"
              THEN errorResponse(500, INTERNAL_ERROR)
              ELSE IF ~result.success
              THEN errorResponse(getHttpStatusSend(result.error), result.error)
              ELSE Response(200, 0,
                       [pushId |-> generatePushId(p),
                        results |-> <<[success |-> result.success,
                                       msgId |-> result.msgId]>>]))]
        /\ UNCHANGED <<now, config, configKV, messagesKV, memoryTokenCache,
                       req, loc, deliv, save>>

\* The topic route (CORS middleware and handleTopicPush), up to its await
\* of pushByTopicKey. The route takes any key of at least one character.
TopicRequest(p) ==
    /\ provider.route = "topic"
    /\ pc[p] = "idle"
    /\ \E r \in { w \in WebhookRequests : w.pathname.key # "" } :
          LET title == IF r.query.title # "" THEN r.query.title
                       ELSE r.body.title
              desp == IF r.query.desp # "" THEN r.query.desp ELSE r.body.desp
          IN  IF r.method = "OPTIONS"
              THEN Responds(p, r, Response(204, NoErrorCode, Null))
              ELSE IF title = ""
              THEN Responds(p, r, errorResponse(400, MISSING_TITLE))
              ELSE InvokesService(p, r, r.pathname.key, sanitizeInput(title),
                                  IF desp # "" THEN sanitizeInput(desp)
                                  ELSE <<>>)
    /\ UNCHANGED <<now, config, configKV, messagesKV, memoryTokenCache,
                   deliv, save>>

\* The topic route after pushByTopicKey settled (a rejection is answered
\* by the error middleware).
TopicServiceDone(p) ==
    LET result == provider.result
    IN  /\ provider.route = "topic"
        /\ pc[p] = "service"
        /\ pc' = [pc EXCEPT ![p] = "responded"]
        /\ ret' = [ret EXCEPT ![p] = Returned(
              IF result.kind = "throw"
              THEN errorResponse(500, INTERNAL_ERROR)
              ELSE IF result.error # NoErrorCode
              THEN errorResponse(getHttpStatusTopic(result.error), result.error)
              ELSE Response(200, 0,
                       [pushId |-> generatePushId(p), total |-> result.total,
                        success |-> result.success, failed |-> result.failed,
                        results |-> result.results]))]
        /\ UNCHANGED <<now, config, configKV, messagesKV, memoryTokenCache,
                       req, loc, deliv, save>>

NextWebhook ==
    \E p \in Pushes :
        \/ SendRequest(p)
        \/ SendServiceDone(p)
        \/ TopicRequest(p)
        \/ TopicServiceDone(p)

SpecWebhook == InitWebhook /\ [][NextWebhook]_vars

\* ----------------------------------------------------- initialization
\* POST /init: configService.exists(), then configService.saveConfig of a
\* freshly generated configuration. The configuration is the entry of
\* configKV under KVKeys.CONFIG.
CONFIG_KEY == <<"config">>

\* generateAdminToken(): a random token, a new one on every call.
generateAdminToken(p) == <<"AT", p>>

\* configService.exists(): the configuration is stored.
exists(kv) == KvGet(kv, CONFIG_KEY) # Null

\* configService.saveConfig(config): the configuration is put as given.
saveConfig(kv, c) == KvPut(kv, CONFIG_KEY, c)

\* The configuration an initialization at time t by request p creates.
InitialConfig(p, t) ==
    [adminToken |-> generateAdminToken(p), createdAt |-> t, updatedAt |-> t]

InitRequests == {"i1", "i2", "i3"}

\* Before any request the system is uninitialized, or was initialized by
\* an earlier request "i0" at time 0.
InitInit ==
    /\ now = 0
    /\ provider = [lifetimes |-> {7200}, sendCodes |-> {0}]
    /\ appsKV = HistoryApps
    /\ openidsKV = [a \in {"a1", "a2"} |-> <<[openId |-> 1]>>]
    /\ channelsKV = [k \in {"c1"} |->
                        [id |-> "c1", name |-> "n1",
                         config |-> [appId |-> "wx1", appSecret |-> ""]]]
    /\ configKV \in {<<>>, saveConfig(<<>>, InitialConfig("i0", 0))}
    /\ messagesKV = <<>>
    /\ memoryTokenCache = <<>>
    /\ NoCalls(InitRequests)

\* A POST /init arrives: the handler awaits configService.exists().
InitPost(p) ==
    /\ pc[p] = "idle"
    /\ pc' = [pc EXCEPT ![p] = "init_exists"]
    /\ UNCHANGED <<now, config, configKV, messagesKV, memoryTokenCache,
                   req, loc, deliv, save, ret>>

\* exists() settles: an initialized system rejects the request, otherwise
\* the handler builds the configuration and awaits saveConfig.
InitExists(p) ==
    /\ pc[p] = "init_exists"
    /\ IF exists(configKV)
       THEN /\ pc' = [pc EXCEPT ![p] = "done"]
            /\ ret' = [ret EXCEPT ![p] =
                          Thrown([status |-> 400, code |-> INVALID_PARAM])]
            /\ UNCHANGED loc
       ELSE /\ pc' = [pc EXCEPT ![p] = "init_save"]
            /\ loc' = [loc EXCEPT ![p] = [config |-> InitialConfig(p, now)]]
            /\ UNCHANGED ret
    /\ UNCHANGED <<now, config, configKV, messagesKV, memoryTokenCache,
                   req, deliv, save>>

\* saveConfig settles: the configuration is stored and the admin token is
\* given to the caller.
InitSaved(p) ==
    /\ pc[p] = "init_save"
    /\ configKV' = saveConfig(configKV, loc[p].config)
    /\ pc' = [pc EXCEPT ![p] = "done"]
    /\ ret' = [ret EXCEPT ![p] =
                  Returned([adminToken |-> loc[p].config.adminToken])]
    /\ UNCHANGED <<now, config, messagesKV, memoryTokenCache, req, loc,
                   deliv, save>>

NextInit ==
    \/ Tick
    \/ \E p \in Pushes :
          \/ InitPost(p)
          \/ InitExists(p)
          \/ InitSaved(p)

SpecInit == InitInit /\ [][NextInit]_vars

\* ------------------------------------------- saveMessage, one write at a time
\* saveMessage of message.service.ts: the body write, then the update of
\* the global list, then of the channel, App and recipient list of each
\* field that is set, each awaited before the next is begun.
\* pc of a write: "wait" | "seq_get" | "seq_put" | "done" | "failed"
SeqIndexUpdates(m) ==
    << [key |-> <<"msg_list">>, limit |-> 10000] >> \o
    (IF HasField(m, "channelId")
     THEN << [key |-> <<"msg_channel", m.channelId>>, limit |-> 5000] >>
     ELSE <<>>) \o
    (IF HasField(m, "appId")
     THEN << [key |-> <<"msg_app", m.appId>>, limit |-> 5000] >>
     ELSE <<>>) \o
    (IF HasField(m, "openId")
     THEN << [key |-> <<"msg_openid", m.openId>>, limit |-> 1000] >>
     ELSE <<>>)

\* Mutant of SeqPrepend: the new id is put at the end of the list.
SeqPrependAtEnd(list, msgId, limit) ==
    LET l == list \o <<msgId>>
    IN  IF Len(l) > limit THEN SubSeq(l, 1, limit) ELSE l

\* list.unshift(message.id); if (list.length > cap) list.length = cap
SeqPrepend(list, msgId, limit) ==
    LET l == <<msgId>> \o list
    IN  IF Len(l) > limit THEN SubSeq(l, 1, limit) ELSE l

\* saveMessage up to its first await: the body write is issued, every
\* list update waits for its turn.
StartSaveSequential(m) ==
    [message |-> m, sequential |-> TRUE, body |-> "seq_put",
     idx |-> [u \in { SeqIndexUpdates(m)[j] : j \in DOMAIN SeqIndexUpdates(m) } |->
                [pc |-> "wait", list |-> <<>>]]]

\* The call is one of message.service.ts.
IsSequential(sv) == "sequential" \in DOMAIN sv

\* idx with the j-th update of the message begun, if there is one.
SeqBegin(idx, m, j) ==
    IF j <= Len(SeqIndexUpdates(m))
    THEN [idx EXCEPT ![SeqIndexUpdates(m)[j]].pc = "seq_get"]
    ELSE idx

\* The place of update u in the order of the message's updates.
SeqIndexOf(m, u) == CHOOSE j \in 1..Len(SeqIndexUpdates(m)) : SeqIndexUpdates(m)[j] = u

\* The messages handed to saveMessage: with or without a channel, an App
\* and a recipient.
SeqMessages(id) ==
    { [id |-> id, direction |-> "outbound", type |-> "push",
       channelId |-> c, appId |-> a, openId |-> o,
       title |-> "T", desp |-> "D", results |-> <<>>, createdAt |-> 0] :
          c \in {"", "c1"}, a \in {"", "a1"}, o \in {"", "o1"} }

\* The histories a call may find: none, or one whose indexes of channel
\* "c1", App "a1" and recipient "o1" are d entries short of full while App
\* "a2" has d + 1 messages.
SeqStores ==
    {<<>>} \cup
    { [k \in DOMAIN OldHistory(d) \cup {<<"msg_app", "a2">>} |->
          IF k = <<"msg_app", "a2">> THEN OldIds(d + 1) ELSE OldHistory(d)[k]] :
      d \in {0, 1} }

\* One caller, on an empty history or on one whose indexes are full or one
\* entry short of full.
InitSeq ==
    /\ now = 0
    /\ provider = [lifetimes |-> {7200}, sendCodes |-> {0}]
    /\ appsKV = HistoryApps
    /\ openidsKV = [a \in {"a1", "a2"} |-> <<[openId |-> 1]>>]
    /\ channelsKV = [k \in {"c1"} |->
                        [id |-> "c1", name |-> "n1",
                         config |-> [appId |-> "wx1", appSecret |-> ""]]]
    /\ configKV = <<>>
    /\ memoryTokenCache = <<>>
    /\ messagesKV \in SeqStores
    /\ NoCalls({"s1"})

\* saveMessage of push.service.ts is called with one of the messages.
ConcSaveCall(p) ==
    /\ pc[p] = "idle"
    /\ \E m \in SeqMessages(p) : save' = [save EXCEPT ![p] = StartSave(m)]
    /\ pc' = [pc EXCEPT ![p] = "saveMessage"]
    /\ UNCHANGED <<now, config, configKV, messagesKV, memoryTokenCache,
                   req, loc, deliv, ret>>

\* saveMessage of message.service.ts is called with one of the messages.
SeqSaveCall(p) ==
    /\ pc[p] = "idle"
    /\ \E m \in SeqMessages(p) :
          save' = [save EXCEPT ![p] = StartSaveSequential(m)]
    /\ pc' = [pc EXCEPT ![p] = "saveMessage"]
    /\ UNCHANGED <<now, config, configKV, messagesKV, memoryTokenCache,
                   req, loc, deliv, ret>>

\* await messagesKV.put(MESSAGE(id), message): then the global list is
\* read; a failing write ends saveMessage (it throws).
SeqBodyPut(p) ==
    /\ save[p] # Null
    /\ save[p].body = "seq_put"
    /\ \/ /\ messagesKV' = KvPut(messagesKV, MessageKey(save[p].message.id),
                                 save[p].message)
          /\ save' = [save EXCEPT ![p].body = "done",
                                  ![p].idx = SeqBegin(@, save[p].message, 1)]
       \/ /\ UNCHANGED messagesKV
          /\ save' = [save EXCEPT ![p].body = "failed"]
    /\ UNCHANGED <<now, config, configKV, memoryTokenCache, pc, req, loc,
                   deliv, ret>>

\* await messagesKV.get(list key): the id is prepended, the list trimmed
\* and the write issued; a failing read ends saveMessage.
SeqListGet(p, u) ==
    /\ save[p] # Null
    /\ u \in DOMAIN save[p].idx
    /\ save[p].idx[u].pc = "seq_get"
    /\ \/ save' = [save EXCEPT ![p].idx[u] =
                      [pc |-> "seq_put",
                       list |-> SeqPrepend(IndexList(messagesKV, u.key),
                                           save[p].message.id, u.limit)]]
       \/ save' = [save EXCEPT ![p].idx[u].pc = "failed"]
    /\ UNCHANGED <<now, config, configKV, messagesKV, memoryTokenCache, pc,
                   req, loc, deliv, ret>>

\* await messagesKV.put(list key, list): then the next list of the message
\* is read; a failing write ends saveMessage.
SeqListPut(p, u) ==
    /\ save[p] # Null
    /\ u \in DOMAIN save[p].idx
    /\ save[p].idx[u].pc = "seq_put"
    /\ \/ /\ messagesKV' = KvPut(messagesKV, u.key, save[p].idx[u].list)
          /\ save' = [save EXCEPT ![p].idx =
                         SeqBegin([@ EXCEPT ![u] = [pc |-> "done", list |-> <<>>]],
                                  save[p].message,
                                  SeqIndexOf(save[p].message, u) + 1)]
       \/ /\ UNCHANGED messagesKV
          /\ save' = [save EXCEPT ![p].idx[u] = [pc |-> "failed", list |-> <<>>]]
    /\ UNCHANGED <<now, config, configKV, memoryTokenCache, pc, req, loc,
                   deliv, ret>>

\* One call of either saveMessage, to its end.
NextSeq ==
    \E p \in Pushes :
        \/ ConcSaveCall(p)
        \/ SeqSaveCall(p)
        \/ BodyPut(p)
        \/ SeqBodyPut(p)
        \/ \E u \in AllIndexUpdates :
              \/ ListGet(p, u)
              \/ ListPut(p, u)
              \/ SeqListGet(p, u)
              \/ SeqListPut(p, u)

SpecSeq == InitSeq /\ [][NextSeq]_vars

\* ------------------------------------------------------------ bind codes
\* How long a bind code can be used, milliseconds.
BINDCODE_TTL_MS == 5 * 60 * 1000

\* The ttl, in seconds, of the key-value entry of a bind code.
BINDCODE_KV_TTL == 600

\* The bind code create() made, as a caller may type it, and a code that
\* was never made.
BindCodes == {"ABCD2345", "abcd2345", "WXYZ6789"}

\* code.toUpperCase().
toUpperCase(code) == IF code = "abcd2345" THEN "ABCD2345" ELSE code

\* KVKeys.BINDCODE(code).
BindCodeKey(code) == <<"bindcode", code>>

\* isBindCodeExpired(bindCode) at time t.
isBindCodeExpired(bindCode, t) == t > bindCode.expiresAt

\* The record create() stores for a code made at time t.
PendingBindCode(code, t) ==
    [code |-> code, appId |-> "a1", channelId |-> "c1", status |-> "pending",
     createdAt |-> t, expiresAt |-> t + BINDCODE_TTL_MS]

\* create(): configKV.put(KVKeys.BINDCODE(code), bindCode, 600) at time t.
CreateBindCode(kv, code, t) ==
    KvPutTtl(kv, BindCodeKey(code), PendingBindCode(code, t),
             BINDCODE_KV_TTL, t)

\* get(code) at time t.
BindCodeGet(kv, code, t) == KvGetTtl(kv, BindCodeKey(toUpperCase(code)), t)

\* markAsBound: {...bindCode, status: 'bound', openId, nickname, avatar}.
UpdatedBindCode(bindCode, openId) ==
    [f \in DOMAIN bindCode \cup {"openId", "nickname", "avatar"} |->
        IF f = "status" THEN "bound"
        ELSE IF f = "openId" THEN openId
        ELSE IF f \in {"nickname", "avatar"} THEN Undefined
        ELSE bindCode[f]]

\* getStatus: the answer for the record get(code) gave, at time t.
BindCodeStatusOf(bindCode, t) ==
    IF bindCode = Null THEN [status |-> "expired"]
    ELSE IF isBindCodeExpired(bindCode, t) /\ bindCode.status = "pending"
    THEN [status |-> "expired"]
    ELSE IF bindCode.status = "bound"
    THEN [status |-> "bound", openId |-> bindCode.openId,
          nickname |-> bindCode.nickname, avatar |-> bindCode.avatar]
    ELSE [status |-> "pending"]

\* The callers of markAsBound and of getStatus.
Binders == {"b1", "b2"}

Pollers == {"q1"}

\* The step of the clock between two calls.
BindTickMs == 250 * MS_PER_SECOND

\* The code "ABCD2345" was made at time 0, or no code was made.
InitBind ==
    /\ now = 0
    /\ provider = [lifetimes |-> {7200}, sendCodes |-> {0}]
    /\ appsKV = HistoryApps
    /\ openidsKV = [a \in {"a1", "a2"} |-> <<[openId |-> 1]>>]
    /\ channelsKV = [k \in {"c1"} |->
                        [id |-> "c1", name |-> "n1",
                         config |-> [appId |-> "wx1", appSecret |-> ""]]]
    /\ configKV \in { <<>>, CreateBindCode(<<>>, "ABCD2345", 0) }
    /\ messagesKV = <<>>
    /\ memoryTokenCache = <<>>
    /\ NoCalls(Binders \cup Pollers)

\* Date.now() moves on.
BindTick ==
    /\ now < MaxTicks * BindTickMs
    /\ now' = now + BindTickMs
    /\ UNCHANGED <<config, configKV, messagesKV, memoryTokenCache, pc, req,
                   loc, deliv, save, ret>>

\* markAsBound(code, openId) is called: get(code) is issued.
MarkAsBoundCall(p) ==
    /\ pc[p] = "idle"
    /\ \E code \in BindCodes, openId \in {"o1", "o2"} :
          req' = [req EXCEPT ![p] = [code |-> code, openId |-> openId]]
    /\ pc' = [pc EXCEPT ![p] = "mark_get"]
    /\ UNCHANGED <<now, config, configKV, messagesKV, memoryTokenCache,
                   loc, deliv, save, ret>>

\* markAsBound: await this.get(code) completes; a missing, an expired and
\* a used code are refused, else the put of the updated record is issued.
MarkAsBoundGet(p) ==
    /\ pc[p] = "mark_get"
    /\ \/ LET bindCode == BindCodeGet(configKV, req[p].code, now)
          IN  IF bindCode = Null
              THEN /\ pc' = [pc EXCEPT ![p] = "threw"]
                   /\ ret' = [ret EXCEPT ![p] = Thrown("BINDCODE_NOT_FOUND")]
                   /\ UNCHANGED loc
              ELSE IF isBindCodeExpired(bindCode, now)
              THEN /\ pc' = [pc EXCEPT ![p] = "threw"]
                   /\ ret' = [ret EXCEPT ![p] = Thrown("BINDCODE_EXPIRED")]
                   /\ UNCHANGED loc
              ELSE IF bindCode.status = "bound"
              THEN /\ pc' = [pc EXCEPT ![p] = "threw"]
                   /\ ret' = [ret EXCEPT ![p] = Thrown("BINDCODE_INVALID")]
                   /\ UNCHANGED loc
              ELSE /\ loc' = [loc EXCEPT ![p] =
                                 [bindCode |-> bindCode,
                                  updatedBindCode |->
                                      UpdatedBindCode(bindCode, req[p].openId)]]
                   /\ pc' = [pc EXCEPT ![p] = "mark_put"]
                   /\ UNCHANGED ret
       \/ /\ pc' = [pc EXCEPT ![p] = "threw"]
          /\ ret' = [ret EXCEPT ![p] = Thrown("KV error")]
          /\ UNCHANGED loc
    /\ UNCHANGED <<now, config, configKV, messagesKV, memoryTokenCache,
                   req, deliv, save>>

\* markAsBound: await configKV.put(..., updatedBindCode, 600) completes;
\* the updated record is returned.
MarkAsBoundPut(p) ==
    /\ pc[p] = "mark_put"
    /\ \/ /\ configKV' = KvPutTtl(configKV,
                                  BindCodeKey(toUpperCase(req[p].code)),
                                  loc[p].updatedBindCode, BINDCODE_KV_TTL, now)
          /\ pc' = [pc EXCEPT ![p] = "returned"]
          /\ ret' = [ret EXCEPT ![p] = Returned(loc[p].updatedBindCode)]
       \/ /\ UNCHANGED configKV
          /\ pc' = [pc EXCEPT ![p] = "threw"]
          /\ ret' = [ret EXCEPT ![p] = Thrown("KV error")]
    /\ UNCHANGED <<now, config, messagesKV, memoryTokenCache, req, loc,
                   deliv, save>>

\* getStatus(code) is called: get(code) is issued.
GetStatusCall(p) ==
    /\ pc[p] = "idle"
    /\ \E code \in BindCodes : req' = [req EXCEPT ![p] = [code |-> code]]
    /\ pc' = [pc EXCEPT ![p] = "status_get"]
    /\ UNCHANGED <<now, config, configKV, messagesKV, memoryTokenCache,
                   loc, deliv, save, ret>>

\* getStatus: await this.get(code) completes; the status is returned.
GetStatusGet(p) ==
    /\ pc[p] = "status_get"
    /\ \/ /\ pc' = [pc EXCEPT ![p] = "returned"]
          /\ ret' = [ret EXCEPT ![p] =
                        Returned(BindCodeStatusOf(
                            BindCodeGet(configKV, req[p].code, now), now))]
       \/ /\ pc' = [pc EXCEPT ![p] = "threw"]
          /\ ret' = [ret EXCEPT ![p] = Thrown("KV error")]
    /\ UNCHANGED <<now, config, configKV, messagesKV, memoryTokenCache,
                   req, loc, deliv, save>>

NextBind ==
    \/ BindTick
    \/ \E p \in Binders :
          \/ MarkAsBoundCall(p)
          \/ MarkAsBoundGet(p)
          \/ MarkAsBoundPut(p)
    \/ \E p \in Pollers :
          \/ GetStatusCall(p)
          \/ GetStatusGet(p)

SpecBind == InitBind /\ [][NextBind]_vars

\* ------------------------------------------------------------ properties
\* The push call p got past both early returns (its targets are chosen).
PassedRouting(p) == loc[p] # Null /\ Len(loc[p].targets) > 0

\* The recipients bound to the App of push p, as stored.
BoundRecipients(p) == listByApp(openidsKV, loc[p].app.id)

\* Push p has resolved its App and read the recipient list and the channel.
PastFetch(p) ==
    pc[p] \notin {"idle", "getByKey", "fetch"} /\ loc[p].app # Null

ChannelExists(p) == getById(channelsKV, loc[p].app.channelId) # Null

InFlightPcs == {"kvget", "tokfetch", "kvput", "status", "send"}

IsReturn(p) == ret[p].kind = "return"

\* C1: for an App in subscribe mode with N >= 1 bound recipients and an
\* existing channel, push starts exactly N deliveries, delivery i for the
\* i-th bound recipient, and a returned result has total = N and N results.
C1_SubscribeFanOut ==
    \A p \in Pushes :
        (/\ PastFetch(p)
         /\ loc[p].app.pushMode = "subscribe"
         /\ Len(BoundRecipients(p)) >= 1
         /\ ChannelExists(p))
        => LET n == Len(BoundRecipients(p))
           IN  /\ Len(deliv[p]) = n
               /\ \A i \in 1..n :
                     /\ deliv[p][i].openId = BoundRecipients(p)[i].openId
                     /\ deliv[p][i].pc \in InFlightPcs \cup {"done"}
               /\ IsReturn(p) =>
                     /\ ret[p].value.total = n
                     /\ Len(ret[p].value.results) = n

C1_Witness ==
    \E p \in Pushes :
        /\ PastFetch(p)
        /\ loc[p].app.pushMode = "subscribe"
        /\ Len(BoundRecipients(p)) = MaxRecipients
        /\ IsReturn(p)
        /\ ret[p].value.total = MaxRecipients

\* C2: for an App in single mode with N >= 1 bound recipients, push starts
\* exactly one delivery, to the first recipient of the list read, and a
\* returned result has total = 1 and the single entry of that recipient.
C2_SingleFirstOnly ==
    \A p \in Pushes :
        (/\ PastFetch(p)
         /\ loc[p].app.pushMode = "single"
         /\ Len(BoundRecipients(p)) >= 1
         /\ ChannelExists(p))
        => /\ Len(deliv[p]) = 1
           /\ deliv[p][1].openId = BoundRecipients(p)[1].openId
           /\ deliv[p][1].pc \in InFlightPcs \cup {"done"}
           /\ IsReturn(p) =>
                 /\ ret[p].value.total = 1
                 /\ Len(ret[p].value.results) = 1
                 /\ ret[p].value.results[1].openId = BoundRecipients(p)[1].openId

C2_Witness ==
    \E p \in Pushes :
        /\ PastFetch(p)
        /\ loc[p].app.pushMode = "single"
        /\ Len(BoundRecipients(p)) = MaxRecipients
        /\ MaxRecipients >= 2
        /\ IsReturn(p)
        /\ ret[p].value.total = 1

\* C3: isolation of deliveries. Every settled delivery of a push, failed
\* or thrown or not, has given its own target's DeliveryResult, a failed
\* one with success false and an error; once all have settled the push has
\* one result per target, in target order, each the result of that
\* target's own delivery, and so has the PushResult it returns.
C3_DeliveryIsolation ==
    \A p \in Pushes :
        /\ \A i \in DOMAIN deliv[p] :
              LET d == deliv[p][i]
              IN  /\ d.pc \in InFlightPcs \cup {"done"}
                  /\ d.pc = "done" =>
                        /\ d.outcome # Null
                        /\ d.outcome.openId = loc[p].targets[i].openId
                        /\ ~d.outcome.success =>
                              d.outcome.error \notin {Undefined, ""}
        /\ pc[p] \in {"save", "returned", "threw"} /\ PassedRouting(p) =>
              /\ Len(loc[p].results) = Len(loc[p].targets)
              /\ \A i \in DOMAIN deliv[p] :
                    loc[p].results[i] = deliv[p][i].outcome
        /\ IsReturn(p) /\ PassedRouting(p) =>
              ret[p].value.results = loc[p].results

\* One delivery threw, a sibling succeeded, and push returned both results.
C3_Witness ==
    \E p \in Pushes :
        /\ IsReturn(p)
        /\ Len(ret[p].value.results) = 2
        /\ \E i, j \in 1..2 :
              /\ ~ret[p].value.results[i].success
              /\ ret[p].value.results[i].error = "KV error"
              /\ ret[p].value.results[j].success

\* C4 (as claimed): a push for a routing key that resolves to no App
\* returns pushId, total 0, success 0, failed 0, no results and the error
\* marker "App not found".
C4_AppNotFoundMarker ==
    \A p \in Pushes :
        (pc[p] \notin {"idle", "getByKey"} /\ loc[p].app = Null)
        => /\ IsReturn(p)
           /\ ret[p].value.pushId = loc[p].pushId
           /\ ret[p].value.total = 0
           /\ ret[p].value.success = 0
           /\ ret[p].value.failed = 0
           /\ ret[p].value.results = <<>>
           /\ "error" \in DOMAIN ret[p].value
           /\ ret[p].value.error = "App not found"

\* C5 (as claimed): a push for an App without bound recipients returns an
\* error result (total 0 and an error marker) and contacts the provider
\* for no token and no send.
C5_NoRecipientsMarker ==
    \A p \in Pushes :
        (PastFetch(p) /\ Len(BoundRecipients(p)) = 0)
        => /\ IsReturn(p)
           /\ ret[p].value.total = 0
           /\ deliv[p] = <<>>
           /\ "error" \in DOMAIN ret[p].value

\* Push p ended in a routing error: unknown key, channel not found or no
\* recipient bound.
RoutingError(p) ==
    \/ pc[p] \notin {"idle", "getByKey"} /\ loc[p].app = Null
    \/ PastFetch(p) /\ (Len(BoundRecipients(p)) = 0 \/ ~ChannelExists(p))

\* The message ids filed in any list index of the history store.
IndexedIds ==
    UNION { { messagesKV[k][i] : i \in DOMAIN messagesKV[k] } :
                k \in { kk \in DOMAIN messagesKV : kk[1] # "msg" } }

\* C6: a push that ends in a routing error returns (nothing is thrown),
\* never calls saveMessage, and the history store holds no body under its
\* pushId and no list index holds its pushId.
C6_RoutingErrorNoHistory ==
    \A p \in Pushes :
        RoutingError(p)
        => /\ IsReturn(p)
           /\ save[p] = Null
           /\ MessageKey(loc[p].pushId) \notin DOMAIN messagesKV
           /\ loc[p].pushId \notin IndexedIds

C6_Witness ==
    \E p \in Pushes :
        /\ PastFetch(p)
        /\ ~ChannelExists(p)
        /\ Len(BoundRecipients(p)) > 0
        /\ IsReturn(p)

\* C7: a PushResult returned after routing succeeded has total equal to
\* the number of its results and to the number of targets, success equal
\* to the number of results with success true, and failed = total - success.
C7_AggregateCounts ==
    \A p \in Pushes :
        IsReturn(p) /\ PassedRouting(p)
        => LET r == ret[p].value
           IN  /\ r.total = Len(r.results)
               /\ r.total = Len(loc[p].targets)
               /\ r.success =
                     Cardinality({ i \in 1..Len(r.results) : r.results[i].success })
               /\ r.failed = r.total - r.success

\* A returned result with a success and a failure in it.
C7_Witness ==
    \E p \in Pushes :
        /\ IsReturn(p)
        /\ PassedRouting(p)
        /\ ret[p].value.success = 1
        /\ ret[p].value.failed = 1

\* C8: when a push that passed routing returns, the history record stored
\* under its pushId exists, has id = pushId, as many results as the
\* returned total and as many success:true results as the returned success.
C8_HistoryMatchesResult ==
    [][ \A p \in Pushes :
          (~IsReturn(p) /\ IsReturn(p)' /\ PassedRouting(p)')
          => LET r == ret'[p].value
                 m == KvGet(messagesKV', MessageKey(r.pushId))
             IN  /\ m # Null
                 /\ m.id = r.pushId
                 /\ Len(m.results) = r.total
                 /\ Cardinality({ i \in 1..Len(m.results) : m.results[i].success })
                       = r.success ]_vars

\* A push of two deliveries, one failed, returned and its record is stored.
C8_Witness ==
    \E p \in Pushes :
        /\ IsReturn(p)
        /\ PassedRouting(p)
        /\ ret[p].value.failed = 1
        /\ ret[p].value.total = 2
        /\ MessageKey(loc[p].pushId) \in DOMAIN messagesKV

\* A write of the saveMessage call of push p has failed.
SaveFailed(p) ==
    /\ save[p] # Null
    /\ \/ save[p].body = "failed"
       \/ \E u \in DOMAIN save[p].idx : save[p].idx[u].pc = "failed"

\* C9 (as claimed): a failed write of saveMessage does not keep the
\* PushResult from the caller: push does not throw, and once every write
\* has completed the caller has the result computed from the deliveries.
C9_SaveFailureNotMasking ==
    \A p \in Pushes :
        SaveFailed(p) => ret[p].kind # "throw"

\* C10: send...Message sends at most twice and forces at most one token
\* refresh; a second send is made only after a first send that failed with
\* 40001 or 42001 and after exactly one forced refresh; the completion of a
\* second send settles the delivery with that send's result; the completion
\* of a first send with any other outcome settles the delivery with that
\* result, with no forced refresh.
C10_Inflight ==
    \A p \in Pushes : \A i \in DOMAIN deliv[p] :
        LET d == deliv[p][i]
        IN  /\ d.sends <= 2
            /\ d.refreshes <= 1
            /\ d.refreshes = 0 => d.sends <= 1 /\ d.phase = 1
            /\ d.refreshes = 1 =>
                  /\ d.phase = 2
                  /\ d.first # Null
                  /\ ~d.first.success
                  /\ d.first.errorCode \in {ERR_INVALID_CREDENTIAL, ERR_TOKEN_EXPIRED}
            /\ d.sends = 2 => d.refreshes = 1

\* The DeliveryResult push makes of a send result.
AsDeliveryResult(openId, r) ==
    [openId |-> openId, success |-> r.success, msgId |-> r.msgId,
     error |-> r.error]

C10_SendStep ==
    \A p \in Pushes : \A i \in DOMAIN deliv[p] :
        LET d == deliv[p][i]
            e == deliv'[p][i]
        IN  (d.pc = "send" /\ e # d)
            => \E o \in SendOutcomes :
                  LET r == doSendMessage(o)
                  IN  IF d.phase = 1 /\ ~r.success
                         /\ r.errorCode \in {ERR_INVALID_CREDENTIAL, ERR_TOKEN_EXPIRED}
                      THEN /\ e.pc = "tokfetch"
                           /\ e.first = r
                           /\ e.refreshes = 1
                           /\ e.sends = 1
                      ELSE /\ e.pc = "done"
                           /\ e.outcome = AsDeliveryResult(d.openId, r)

C10_RetryAtMostOnce == []C10_Inflight /\ [][C10_SendStep]_vars

\* A second send is under way, after one forced refresh.
C10_Witness ==
    \E p \in Pushes : \E i \in DOMAIN deliv[p] :
        /\ deliv[p][i].pc = "send"
        /\ deliv[p][i].sends = 2
        /\ deliv[p][i].refreshes = 1
        /\ deliv[p][i].first.errorCode = ERR_TOKEN_EXPIRED

\* ------------------------------------------ properties of getAccessToken
\* The positions of a delivery inside a call of getAccessToken.
TokenPcs == {"kvget", "tokfetch", "kvput", "status"}

\* The call of getAccessToken made by delivery i of push p ends in this step.
CallEnds(p, i) ==
    deliv[p][i].pc \in TokenPcs /\ deliv'[p][i].pc \notin TokenPcs

\* The delivery settled because getAccessToken raised (push caught it).
Raised(e) == e.pc = "done" /\ e.outcome.error = "KV error"

\* The call ended by returning null: the delivery settled without a send.
ReturnedNull(e) == e.pc = "done" /\ e.outcome.error # "KV error"

\* The TokenStatus stored for the channel of push p, read in store kv at t.
StoredStatus(kv, p, t) ==
    KvGetTtl(kv, getTokenStatusCacheKey(loc[p].channel.id), t)

\* C11 (as claimed): getAccessToken never raises to its caller, and a call
\* that ends without a token after a provider error, a malformed response,
\* a network failure or a key-value failure has returned null with a
\* TokenStatus of valid false recorded for the channel.
C11_NeverRaises ==
    [][ \A p \in Pushes : \A i \in DOMAIN deliv[p] :
          CallEnds(p, i)
          => LET e == deliv'[p][i]
             IN  /\ ~Raised(e)
                 /\ ReturnedNull(e) =>
                       /\ StoredStatus(configKV', p, now') # Null
                       /\ ~StoredStatus(configKV', p, now').valid ]_vars

\* The token cache key of the channel push p delivers through.
CacheKeyOf(p) == <<"wechat_access_token", loc[p].channel.config.appId>>

\* C12: getAccessToken returns a cached token only while its expiresAt is
\* later than the current time. A call that is not forced returns the
\* memory entry's token exactly when that entry exists with expiresAt > now
\* and else reads the key-value tier; when that read completes it returns
\* the entry's token exactly when the entry exists with expiresAt > now and
\* else sends an issuance request (or the read failed).
C12_NoExpiredCachedToken ==
    [][ \A p \in Pushes :
          /\ (pc[p] = "fetch" /\ pc'[p] = "deliver") =>
                \A i \in DOMAIN deliv'[p] :
                    LET e == deliv'[p][i]
                        k == <<"wechat_access_token", loc'[p].channel.config.appId>>
                    IN  IF k \in DOMAIN memoryTokenCache
                           /\ memoryTokenCache[k].expiresAt > now
                        THEN /\ e.pc = "send"
                             /\ e.token = memoryTokenCache[k].accessToken
                        ELSE e.pc = "kvget"
          /\ \A i \in DOMAIN deliv[p] :
                LET d == deliv[p][i]
                    e == deliv'[p][i]
                    c == KvGetTtl(configKV, CacheKeyOf(p), now)
                IN  (d.pc = "kvget" /\ e # d) =>
                       \/ Raised(e)
                       \/ /\ c # Null
                          /\ c.expiresAt > now
                          /\ e.pc = "send"
                          /\ e.token = c.accessToken
                       \/ /\ ~(c # Null /\ c.expiresAt > now)
                          /\ e.pc = "tokfetch" ]_vars

\* Both tiers hold an entry that has expired, and a call that was not
\* forced has sent an issuance request.
C12_Witness ==
    \E p \in Pushes : \E i \in DOMAIN deliv[p] :
        /\ deliv[p][i].pc = "tokfetch"
        /\ deliv[p][i].phase = 1
        /\ CacheKeyOf(p) \in DOMAIN memoryTokenCache
        /\ memoryTokenCache[CacheKeyOf(p)].expiresAt <= now
        /\ KvGetTtl(configKV, CacheKeyOf(p), now) # Null
        /\ KvGetTtl(configKV, CacheKeyOf(p), now).expiresAt <= now

\* tok is a token of a response of the provider (made at time tok[2], with
\* a lifetime of tok[3] seconds).
IsIssued(tok) == Len(tok) = 3 /\ tok[1] = "token"

\* The expiry claimed for an issued token: response time + (L - 300) s.
ClaimedExpiry(tok) == tok[2] + (tok[3] - 300) * 1000

\* C13: when the provider issues a token with lifetime L at time t,
\* getAccessToken puts {accessToken, expiresAt = t + (L - 300) s} in the
\* memory tier at once, writes the same entry to the key-value tier under
\* the channel's cache key, and a call that returns the token has recorded
\* TokenStatus{valid: true, expiresAt} with that expiresAt.
C13_IssuedTokenStored ==
    [][ \A p \in Pushes : \A i \in DOMAIN deliv[p] :
          LET d == deliv[p][i]
              e == deliv'[p][i]
              k == CacheKeyOf(p)
          IN  /\ (d.pc = "tokfetch" /\ e.pc = "kvput") =>
                    \E L \in provider.lifetimes :
                        memoryTokenCache'[k] =
                            [accessToken |-> <<"token", now, L>>,
                             expiresAt |-> now + (L - 300) * 1000]
              /\ (d.pc = "kvput" /\ e # d /\ configKV' # configKV) =>
                    LET v == KvGetTtl(configKV', k, now)
                    IN  /\ v # Null
                        /\ IsIssued(v.accessToken)
                        /\ v.expiresAt = ClaimedExpiry(v.accessToken)
                        /\ v = d.pending
                        /\ configKV'[k].ttlAt = now + 7000 * 1000
              /\ (d.pc = "status" /\ e.pc = "send") =>
                    LET st == StoredStatus(configKV', p, now)
                    IN  /\ IsIssued(e.token)
                        /\ st # Null
                        /\ st.valid
                        /\ st.lastRefreshSuccess
                        /\ st.expiresAt = ClaimedExpiry(e.token) ]_vars

\* A call has returned a token of lifetime 600 s issued after the clock
\* moved: both tiers hold its entry and the status has its expiresAt.
C13_Witness ==
    \E p \in Pushes : \E i \in DOMAIN deliv[p] :
        LET d == deliv[p][i]
            k == CacheKeyOf(p)
        IN  /\ d.pc = "send"
            /\ IsIssued(d.token)
            /\ d.token[2] > 0
            /\ d.token[3] = 600
            /\ k \in DOMAIN memoryTokenCache
            /\ memoryTokenCache[k].accessToken = d.token
            /\ KvGetTtl(configKV, k, now) = memoryTokenCache[k]
            /\ StoredStatus(configKV, p, now) # Null
            /\ StoredStatus(configKV, p, now).valid
            /\ StoredStatus(configKV, p, now).expiresAt = d.token[2] + 300000

\* Two channels get the same token cache key exactly when their appIds are
\* equal, whatever their ids and names.
KeyByAppIdOnly ==
    \A a, b \in TokenChannels :
        (getAccessTokenCacheKey(a) = getAccessTokenCacheKey(b))
            <=> (a.config.appId = b.config.appId)

\* A token taken from an entry left for some appId is only ever held by a
\* delivery through a channel of that appId.
NoForeignToken ==
    \A p \in Pushes : \A i \in DOMAIN deliv[p] :
        LET tok == deliv[p][i].token
        IN  (Len(tok) = 2 /\ tok[1] = "preset") =>
                tok[2] = loc[p].channel.config.appId

\* A completed key-value read that finds a usable entry stored for the
\* channel's appId (by whatever channel) gives the call that entry's token.
SharedEntryStep ==
    \A p \in Pushes : \A i \in DOMAIN deliv[p] :
        LET d == deliv[p][i]
            e == deliv'[p][i]
            k == <<"wechat_access_token", loc[p].channel.config.appId>>
        IN  (/\ d.pc = "kvget"
             /\ e # d
             /\ ~Raised(e)
             /\ k \in DOMAIN configKV
             /\ now < configKV[k].ttlAt
             /\ configKV[k].value.expiresAt > now)
            => e.token = configKV[k].value.accessToken

WholeEntry(v) ==
    \/ IsIssued(v.accessToken) /\ v.expiresAt = ClaimedExpiry(v.accessToken)
    \/ \E a \in {"wx1", "wx2"} : v = PresetEntry(a)

\* The token keys of a store.
TokenKeys(kv) == { k \in DOMAIN kv : k[1] = "wechat_access_token" }

\* Every caller that got a token holds one the provider issued, and each
\* tier holds whole entries only.
C15_Whole ==
    /\ \A p \in Pushes : \A i \in DOMAIN deliv[p] :
          deliv[p][i].pc = "send" =>
              \/ IsIssued(deliv[p][i].token)
              \/ \E a \in {"wx1", "wx2"} : deliv[p][i].token = PresetToken(a)
    /\ \A k \in TokenKeys(memoryTokenCache) : WholeEntry(memoryTokenCache[k])
    /\ \A k \in TokenKeys(configKV) : WholeEntry(configKV[k].value)

\* A tier's entry changes only by a write of one call, to the entry that
\* call got from its own response (or, for the memory tier, to the entry
\* the call read from the key-value tier): the last write wins.
C15_LastWriteStep ==
    /\ \A k \in TokenKeys(memoryTokenCache') :
          (k \notin DOMAIN memoryTokenCache
              \/ memoryTokenCache'[k] # memoryTokenCache[k]) =>
             \E p \in Pushes : \E i \in DOMAIN deliv[p] :
                 \/ /\ deliv[p][i].pc = "tokfetch"
                    /\ deliv'[p][i].pc = "kvput"
                    /\ memoryTokenCache'[k] = deliv'[p][i].pending
                    /\ IsIssued(deliv'[p][i].pending.accessToken)
                    /\ deliv'[p][i].pending.accessToken[2] = now
                 \/ /\ deliv[p][i].pc = "kvget"
                    /\ k \in DOMAIN configKV
                    /\ memoryTokenCache'[k] = configKV[k].value
    /\ \A k \in TokenKeys(configKV') :
          (k \notin DOMAIN configKV \/ configKV'[k] # configKV[k]) =>
             \E p \in Pushes : \E i \in DOMAIN deliv[p] :
                 /\ deliv[p][i].pc = "kvput"
                 /\ deliv'[p][i].pc = "status"
                 /\ configKV'[k].value = deliv[p][i].pending

\* C15: concurrent calls of getAccessToken for one appId, in any
\* interleaving: every caller that gets a token gets one the provider
\* issued; each tier's entry is always whole (token and expiresAt of one
\* response) and is the entry of the last successful write to that tier.
C15_ConcurrentRefreshSafe == []C15_Whole /\ [][C15_LastWriteStep]_vars

\* Two concurrent calls were both issued a token and have both completed:
\* the memory tier holds the entry of one and the key-value tier the entry
\* of the other.
C15_Witness ==
    \E p \in Pushes :
        LET k == CacheKeyOf(p)
        IN  /\ pc[p] = "deliver"
            /\ Len(deliv[p]) >= 2
            /\ \A i \in DOMAIN deliv[p] : deliv[p][i].pc = "done"
            /\ k \in DOMAIN memoryTokenCache
            /\ k \in DOMAIN configKV
            /\ IsIssued(memoryTokenCache[k].accessToken)
            /\ IsIssued(configKV[k].value.accessToken)
            /\ memoryTokenCache[k] # configKV[k].value

\* The entry stored under the TokenStatus key of push p's channel, if any.
StatusEntry(kv, p) ==
    KvGet(kv, getTokenStatusCacheKey(loc[p].channel.id))

\* C16 (as claimed): a call of getAccessToken that has sent a request to
\* the issuance endpoint writes the channel's TokenStatus before it ends,
\* with valid and lastRefreshSuccess true exactly when it returns a token
\* and false with an error otherwise (the entry is written in the step in
\* which the call ends, for 86400 s); a call served from the key-value
\* tier leaves the TokenStatus as it was.
C16_StatusOnEveryFetch ==
    [][ \A p \in Pushes : \A i \in DOMAIN deliv[p] :
          LET d == deliv[p][i]
              e == deliv'[p][i]
              st == StatusEntry(configKV', p)
          IN  /\ (CallEnds(p, i) /\ d.pc = "status") =>
                    /\ st # Null
                    /\ st.ttlAt = now + 86400 * 1000
                    /\ st.value.valid = (e.pc = "send")
                    /\ st.value.lastRefreshSuccess = (e.pc = "send")
                    /\ ~st.value.valid => "error" \in DOMAIN st.value
              /\ (CallEnds(p, i) /\ d.pc = "kvget") =>
                    StatusEntry(configKV', p) = StatusEntry(configKV, p) ]_vars

\* ------------------------------------------------- deliveries without token
\* The errors of a delivery for which no token was obtained: getAccessToken
\* returned null, or raised.
NoTokenErrors == {"Failed to get access token", "KV error"}

C17_Inv ==
    \A p \in Pushes :
        /\ \A i \in DOMAIN deliv[p] :
              deliv[p][i].pc = "send" =>
                  deliv[p][i].token # NoToken /\ deliv[p][i].sends >= 1
        /\ ret[p].kind = "throw" => SaveFailed(p)
        /\ (/\ IsReturn(p)
            /\ PassedRouting(p)
            /\ \A i \in DOMAIN ret[p].value.results :
                  ret[p].value.results[i].error \in NoTokenErrors)
           => LET r == ret[p].value
              IN  /\ r.total = Len(loc[p].targets)
                  /\ Len(r.results) = r.total
                  /\ r.failed = r.total
                  /\ r.success = 0
                  /\ \A i \in DOMAIN r.results :
                        /\ ~r.results[i].success
                        /\ r.results[i].openId = loc[p].targets[i].openId

C17_Step ==
    \A p \in Pushes :
        /\ \A i \in DOMAIN deliv[p] :
              (CallEnds(p, i) /\ deliv[p][i].phase = 1
                  /\ deliv'[p][i].pc = "done") =>
                 /\ deliv[p][i].sends = 0
                 /\ ~deliv'[p][i].outcome.success
                 /\ deliv'[p][i].outcome.error \in NoTokenErrors
        /\ (pc[p] = "fetch" /\ pc'[p] = "deliver"
               /\ loc'[p].channel.config.appSecret = "") =>
              \A i \in DOMAIN deliv'[p] :
                  /\ deliv'[p][i].pc = "done"
                  /\ ~deliv'[p][i].outcome.success
                  /\ deliv'[p][i].outcome.error = "Failed to get access token"

\* C17: when no token is obtained, the delivery settles with success false
\* and no call of the send endpoint (a send is only ever made with a
\* token); push makes a failed DeliveryResult of it for each target and
\* returns a PushResult with total = number of targets and failed = total;
\* nothing but a failed history write makes push throw.
C17_NoTokenFailsDelivery == []C17_Inv /\ [][C17_Step]_vars

\* Both token requests of a push for two targets failed and push returned
\* two failed results.
C17_Witness ==
    \E p \in Pushes :
        /\ IsReturn(p)
        /\ PassedRouting(p)
        /\ loc[p].channel.config.appSecret # ""
        /\ ret[p].value.total = 2
        /\ ret[p].value.failed = 2
        /\ \A i \in DOMAIN ret[p].value.results :
              ret[p].value.results[i].error = "Failed to get access token"

\* ------------------------------------------------- properties of the history
\* The ids listByApp(appId) returns, read over all its pages of pageSize.
ListedIds(appId, pageSize) ==
    LET total == MessageListByApp(messagesKV, appId, 1, pageSize).total
    IN  UNION { { m.id : m \in
                    { MessageListByApp(messagesKV, appId, pg, pageSize).messages[j] :
                        j \in 1..Len(MessageListByApp(messagesKV, appId, pg,
                                                      pageSize).messages) } } :
                pg \in 1..(total \div pageSize + 1) }

\* The ids of the messages created by pushes to App appId.
CreatedFor(appId) ==
    { save[p].message.id :
        p \in { q \in Pushes : save[q] # Null /\ save[q].message.appId = appId } }

\* Every push has ended and every history write has settled.
AllDone ==
    \A p \in Pushes :
        /\ pc[p] \in {"returned", "threw"}
        /\ save[p] # Null =>
              /\ save[p].body \in {"done", "failed"}
              /\ \A u \in DOMAIN save[p].idx :
                    save[p].idx[u].pc \in {"done", "failed"}

PageSizes == {1, PAGE_SIZE}

Completed(p) == save[p] # Null /\ AllSaved(save[p])

\* The keys of the indexes both callers p and q update.
SharedKeys(p, q) ==
    { u.key : u \in DOMAIN save[p].idx } \cap { u.key : u \in DOMAIN save[q].idx }

\* The elements of a list.
Range(list) == { list[j] : j \in DOMAIN list }

\* C19: when two saveMessage calls have both completed, both message bodies
\* are retrievable by get(id); each list index both of them updated holds
\* one or both of their ids, each at most once and nothing else, and may
\* hold only one of the two (the lost update that C19_Witness reaches).
C19_LostUpdateKeepsBodies ==
    \A p \in Pushes : \A q \in Pushes \ {p} :
        (Completed(p) /\ Completed(q)) =>
            /\ get(messagesKV, save[p].message.id) = save[p].message
            /\ get(messagesKV, save[q].message.id) = save[q].message
            /\ \A k \in SharedKeys(p, q) :
                  LET list == IndexList(messagesKV, k)
                  IN  /\ Range(list) # {}
                      /\ Range(list) \subseteq {save[p].message.id,
                                                save[q].message.id}
                      /\ Len(list) = Cardinality(Range(list))

\* Two concurrent saveMessage calls for messages of one App have both
\* completed, the App's list holds only one of the two ids, and get(id)
\* gives both messages.
C19_Witness ==
    /\ {"s1", "s2"} \subseteq Pushes
    /\ Completed("s1") /\ Completed("s2")
    /\ <<"msg_app", "a1">> \in SharedKeys("s1", "s2")
    /\ Len(IndexList(messagesKV, <<"msg_app", "a1">>)) = 1
    /\ get(messagesKV, "s1") = save["s1"].message
    /\ get(messagesKV, "s2") = save["s2"].message


\* The cap of the list index stored under key.
CapOf(key) ==
    CASE key[1] = "msg_list" -> GLOBAL_LIST_LIMIT
      [] key[1] = "msg_channel" -> CHANNEL_LIST_LIMIT
      [] key[1] = "msg_app" -> APP_LIST_LIMIT
      [] key[1] = "msg_openid" -> OPENID_LIST_LIMIT

\* The keys of messagesKV that hold a list index.
IndexKeys(kv) == { k \in DOMAIN kv : k[1] # "msg" }

\* new is old with id put at its head, cut at the tail to limit entries.
PrependedAndTrimmed(new, old, id, limit) ==
    /\ Len(new) = (IF Len(old) + 1 > limit THEN limit ELSE Len(old) + 1)
    /\ new[1] = id
    /\ \A j \in 2..Len(new) : new[j] = old[j - 1]

\* C20 (as claimed): when a saveMessage completes, each list index it
\* updated has the new message id at its head and is within its cap.
C20_HeadAfterEverySave ==
    [][\A p \in Pushes :
          (save[p] # Null /\ ~AllSaved(save[p]) /\ AllSaved(save'[p])) =>
              \A u \in DOMAIN save'[p].idx :
                  LET list == IndexList(messagesKV', u.key)
                  IN  /\ Len(list) >= 1
                      /\ Len(list) <= CapOf(u.key)
                      /\ list[1] = save'[p].message.id]_vars

\* The list a read of updateList leads to is the list read with the new id
\* at its head, the earlier ids in their order, cut at the tail to the cap.
C20_ReadStep ==
    \A p \in Pushes :
        save[p] # Null =>
            \A u \in DOMAIN save[p].idx :
                (save[p].idx[u].pc = "get" /\ save'[p].idx[u].pc = "put") =>
                    PrependedAndTrimmed(save'[p].idx[u].list,
                                        IndexList(messagesKV, u.key),
                                        save[p].message.id, CapOf(u.key))

\* The write of updateList stores exactly the list its read led to.
C20_WriteStep ==
    \A p \in Pushes :
        save[p] # Null =>
            \A u \in DOMAIN save[p].idx :
                (save[p].idx[u].pc = "put" /\ save'[p].idx[u].pc = "done") =>
                    IndexList(messagesKV', u.key) = save[p].idx[u].list

\* Every stored list index is within its cap.
C20_WithinCaps ==
    \A k \in IndexKeys(messagesKV) : Len(messagesKV[k]) <= CapOf(k)

\* A saveMessage no other call overlapped has completed: each list index
\* it updated has its id at the head, followed by the earlier ids in their
\* order, the oldest dropped where the cap was reached.
C20_AloneHeadAndOrder ==
    (Pushes = {"s1"} /\ Completed("s1")) =>
        \A u \in DOMAIN save["s1"].idx :
            \E d \in {0, 1} :
                PrependedAndTrimmed(IndexList(messagesKV, u.key),
                                    OldIds(u.limit - d), "s1", CapOf(u.key))

\* C20 (amended): every list update of saveMessage writes the list it read
\* with the new message id at its head, the earlier ids in their earlier
\* order, cut at the tail to the cap (global 10000, channel 5000, app 5000,
\* recipient 1000); every stored list is within its cap; after a
\* saveMessage that no other call overlapped each list it updated has the
\* new id at its head (an overlapping call can write a list without it).
C20_PrependAndTrim ==
    /\ []C20_WithinCaps
    /\ []C20_AloneHeadAndOrder
    /\ [][C20_ReadStep /\ C20_WriteStep]_vars

\* A saveMessage on an App list that was full has completed: the list still
\* has 5000 entries, the new id at its head, the newest earlier id next and
\* the oldest earlier id ("1") dropped from the tail.
C20_Witness ==
    /\ Completed("s1")
    /\ <<"msg_app", "a1">> \in DOMAIN messagesKV
    /\ LET list == messagesKV[<<"msg_app", "a1">>]
       IN  /\ Len(list) = APP_LIST_LIMIT
           /\ list[1] = "s1"
           /\ list[2] = "5000"
           /\ list[APP_LIST_LIMIT] = "2"


\* ------------------------------------------------------ properties of list
\* Message m satisfies every filter the options o supply.
SatisfiesFilters(o, m) ==
    /\ o.channelId # "" => Field(m, "channelId") = o.channelId
    /\ o.appId # "" => Field(m, "appId") = o.appId
    /\ o.openId # "" => Field(m, "openId") = o.openId
    /\ o.direction # "" => m.direction = o.direction
    /\ o.startDate # NoDate => m.createdAt >= o.startDate
    /\ o.endDate # NoDate => m.createdAt <= o.endDate

\* The ids of the most specific index the options o name.
MostSpecificIds(o) ==
    Range(IndexList(messagesKV,
                    IF o.openId # "" THEN <<"msg_openid", o.openId>>
                    ELSE IF o.appId # "" THEN <<"msg_app", o.appId>>
                    ELSE IF o.channelId # "" THEN <<"msg_channel", o.channelId>>
                    ELSE <<"msg_list">>))

\* C21: every message list(options) returns has its id in the most specific
\* index the options name (recipient, then App, then channel, then global)
\* and satisfies every filter supplied: channelId, appId, openId, direction,
\* startDate and endDate.
C21_EveryFilterApplied ==
    \A p \in Pushes :
        pc[p] = "listed" =>
            \A j \in DOMAIN ret[p].value.messages :
                LET m == ret[p].value.messages[j]
                IN  /\ m.id \in MostSpecificIds(req[p])
                    /\ SatisfiesFilters(req[p], m)


\* ------------------------------------ properties of get, delete and cleanup
\* The keys of messagesKV that hold a message body.
BodyKeys(kv) == KvListAll(kv, MESSAGE_PREFIX)

\* This step is the completion of a messagesKV.delete(k) that delete or
\* cleanup issued.
RemovesBody(k) ==
    \E c \in Pushes :
        /\ pc[c] \in {"delete_delete", "cleanup_delete"}
        /\ loc[c].key = k
        /\ pc'[c] # pc[c]

\* A stored message stays as it is, or is removed by delete or cleanup.
C22_NoUpdatePath ==
    \A k \in BodyKeys(messagesKV) :
        \/ k \in DOMAIN messagesKV' /\ messagesKV'[k] = messagesKV[k]
        \/ k \notin DOMAIN messagesKV' /\ RemovesBody(k)

\* The body write of saveMessage(m) stores m under its id.
C22_BodyWritten ==
    \A p \in Pushes :
        (save[p] # Null /\ save[p].body = "put" /\ save'[p].body = "done") =>
            get(messagesKV', save[p].message.id) = save[p].message

\* After saveMessage(m) has completed get(m.id) gives m or, once it was
\* removed, null; it gives m as long as no delete or cleanup was called.
C22_GetAfterSave ==
    \A p \in Pushes :
        Completed(p) =>
            /\ get(messagesKV, save[p].message.id) \in {save[p].message, Null}
            /\ (\A c \in Pushes \ {p} : pc[c] = "idle") =>
                  get(messagesKV, save[p].message.id) = save[p].message

\* C22: after saveMessage(m) completes, get(m.id) returns a record equal to
\* m field for field; a stored message is never changed, and it is removed
\* only by a delete that delete(id) or cleanup issued.
C22_RoundTrip ==
    /\ []C22_GetAfterSave
    /\ [][C22_BodyWritten /\ C22_NoUpdatePath]_vars

\* saveMessage(m) has completed, a delete of another message has returned
\* true, a cleanup has returned after deleting a message, and get(m.id)
\* still gives m.
C22_Witness ==
    /\ Completed("s1")
    /\ get(messagesKV, "s1") = save["s1"].message
    /\ pc["d1"] = "returned" /\ ret["d1"].value = TRUE
    /\ pc["g1"] = "returned" /\ ret["g1"].value >= 1


\* The bodies this step removes from messagesKV.
RemovedBodies == BodyKeys(messagesKV) \ BodyKeys(messagesKV')

\* cleanup takes its cutoff retentionDays days before Date.now().
C28_CutoffTaken ==
    \A g \in Cleaners :
        (pc[g] = "cleanup_list" /\ pc'[g] \in {"cleanup_get", "returned"}) =>
            loc'[g].cutoff = now - loc[g].retentionDays * DAY_MS

\* A step of cleanup removes at most the message it fetched, which was
\* created before the cutoff, and counts it; no other step of cleanup
\* removes a message or counts.
C28_DeletesOnlyExpired ==
    \A g \in Cleaners :
        pc[g] \in {"cleanup_list", "cleanup_get", "cleanup_delete"} /\ pc'[g] # pc[g]
        => IF pc[g] = "cleanup_delete" /\ pc'[g] # "threw"
           THEN /\ RemovedBodies \subseteq {loc[g].key}
                /\ \A k \in RemovedBodies :
                      messagesKV[k].createdAt < loc[g].cutoff
                /\ loc'[g].count = loc[g].count + 1
           ELSE /\ RemovedBodies = {}
                /\ pc[g] # "cleanup_list" => loc'[g].count = loc[g].count

\* Once cleanup has returned, none of the messages it listed that is still
\* stored was created before its cutoff; when no delete(id) was called
\* besides, the listed messages now missing are as many as cleanup returned.
C28_AfterCleanup ==
    \A g \in Cleaners :
        pc[g] = "returned" =>
            /\ \A k \in loc[g].keys \cap DOMAIN messagesKV :
                  messagesKV[k].createdAt >= loc[g].cutoff
            /\ (\A d \in Deleters : pc[d] = "idle") =>
                  ret[g].value =
                      Cardinality(loc[g].keys \ DOMAIN messagesKV)

\* C28: cleanup(retentionDays) deletes exactly the stored messages (those
\* listAll gave it) created before its cutoff, Date.now() minus
\* retentionDays days, leaves every other message in place and returns the
\* number of messages it deleted.
C28_CleanupExact ==
    /\ []C28_AfterCleanup
    /\ [][C28_CutoffTaken /\ C28_DeletesOnlyExpired]_vars

\* cleanup(1) has returned 1: of the two stored messages the one created
\* two days after time 0 is gone, the one created at the cutoff is kept.
C28_Witness ==
    /\ pc["g1"] = "returned"
    /\ ret["g1"].value = 1
    /\ loc["g1"].cutoff = 3 * DAY_MS
    /\ MessageKey("1") \notin DOMAIN messagesKV
    /\ get(messagesKV, "2").createdAt = 3 * DAY_MS
    /\ pc["d1"] = "idle"


\* ------------------------------------------------ properties of error texts
\* C23: a delivery that failed on a provider error code carries as its
\* error the lookup table's message for that code (or the fallback built
\* from the code); a send that failed otherwise carries the request's error.
C23_DeliveryErrorFromTable ==
    [][\A p \in Pushes : \A i \in DOMAIN deliv[p] :
          (deliv[p][i].pc = "send" /\ deliv'[p][i].pc = "done"
           /\ ~deliv'[p][i].outcome.success) =>
              deliv'[p][i].outcome.error \in
                  { getWeChatErrorMessage(c) : c \in provider.sendCodes \ {0} }
                  \cup {"fetch failed"}]_vars


\* ---------------------------------------------------- properties of fan-out
\* When push starts to wait for its deliveries every target's delivery has
\* been issued, in target order.
C24_AllIssued ==
    \A p \in Pushes :
        pc[p] = "deliver" =>
            /\ Len(deliv[p]) = Len(loc[p].targets)
            /\ \A i \in DOMAIN deliv[p] :
                  /\ deliv[p][i].openId = loc[p].targets[i].openId
                  /\ deliv[p][i].pc # "new"

\* The PushResult of a push that delivered: one entry per target in target
\* order, each the outcome of that target's delivery, and the counts of
\* those outcomes.
C24_ResultOfOutcomes ==
    \A p \in Pushes :
        (IsReturn(p) /\ PassedRouting(p)) =>
            LET r == ret[p].value
                n == Len(loc[p].targets)
            IN  /\ Len(r.results) = n
                /\ r.total = n
                /\ \A i \in 1..n :
                      /\ r.results[i] = deliv[p][i].outcome
                      /\ r.results[i].openId = loc[p].targets[i].openId
                /\ r.success =
                      Cardinality({ i \in 1..n : deliv[p][i].outcome.success })
                /\ r.failed =
                      Cardinality({ i \in 1..n : ~deliv[p][i].outcome.success })

\* C24: push issues all target deliveries before waiting for any of them,
\* and in whatever order they complete it returns the counts of their
\* outcomes and a results list with one entry per target, in target order.
C24_FanOutOrderIndependent == C24_AllIssued /\ C24_ResultOfOutcomes

\* A push to two targets has returned: the first target's delivery failed
\* and the second succeeded, and the results list them in target order.
C24_Witness ==
    \E p \in Pushes :
        /\ IsReturn(p)
        /\ PassedRouting(p)
        /\ Len(loc[p].targets) = 2
        /\ ~ret[p].value.results[1].success
        /\ ret[p].value.results[2].success
        /\ ret[p].value.success = 1 /\ ret[p].value.failed = 1


\* ------------------------------------------ properties of the entry points
\* Caller p's request has been answered.
Responded(p) == pc[p] = "responded"

\* Two responses are equivalent: same status, same code and, the pushId
\* aside, the same data.
EquivalentResponses(a, b) ==
    /\ a.status = b.status
    /\ a.code = b.code
    /\ IF a.data = Null \/ b.data = Null
       THEN a.data = b.data
       ELSE [a.data EXCEPT !.pushId = ""] = [b.data EXCEPT !.pushId = ""]

\* g is a GET request with query parameters and q a POST request with the
\* same key, title and desp in a JSON body.
GetAndPostOfOneMessage(g, q) ==
    /\ g.method = "GET" /\ q.method = "POST"
    /\ g.pathname = q.pathname
    /\ g.pathname.key # ""
    /\ g.query.title # ""
    /\ q.query.title = "" /\ q.query.desp = ""
    /\ q.body.title = g.query.title
    /\ q.body.desp = g.query.desp

\* C25: for the same key, title and desp, a GET request with query
\* parameters and a POST request with a JSON body are answered with
\* equivalent responses (same status and code, same data but the pushId).
C25_GetPostEquivalent ==
    \A p \in Pushes : \A q \in Pushes :
        (Responded(p) /\ Responded(q)
         /\ GetAndPostOfOneMessage(req[p], req[q])) =>
            EquivalentResponses(ret[p].value, ret[q].value)

\* Request r is a GET or POST webhook request with a key and no title.
WithoutTitle(r) ==
    /\ r.method \in {"GET", "POST"}
    /\ r.pathname.key # ""
    /\ r.query.title = "" /\ r.body.title = ""

\* C26: a webhook request without a title is answered with HTTP 400 and
\* the code MISSING_TITLE, and the push service is never invoked for it.
C26_MissingTitleRejected ==
    \A p \in Pushes :
        (req[p] # Null /\ WithoutTitle(req[p])) =>
            /\ Responded(p)
            /\ loc[p] = Null
            /\ ret[p].value.status = 400
            /\ ret[p].value.code = MISSING_TITLE

\* The HTTP statuses of the band of an error code.
StatusBand(code) ==
    CASE code = 0 -> 200..299
      [] code \div 100 = 400 -> 400..499
      [] code \div 100 = 401 -> {401}
      [] code \div 100 = 404 -> {404}
      [] code \div 100 = 429 -> {429}
      [] code \div 100 = 500 -> 500..599
      [] OTHER -> {}

\* C27: every response that carries a code is sent with an HTTP status of
\* the code's band: 4xx for 400xx, 401 for 401xx, 404 for 404xx, 429 for
\* 429xx, 5xx for 500xx, and a success status for code 0.
C27_StatusInBand ==
    \A p \in Pushes :
        (Responded(p) /\ ret[p].value.code # NoErrorCode) =>
            ret[p].value.status \in StatusBand(ret[p].value.code)

\* ------------------------------------------------------------------ C29
\* The initialization requests that were accepted.
AcceptedInits == { p \in Pushes : ret[p].kind = "return" }

\* C29: initialization happens at most once: a system that started
\* initialized accepts no request, one that started uninitialized accepts
\* at most one, overlapping requests included, and a stored admin token
\* is never replaced.
C29_InitializedAtMostOnce ==
    /\ [](Cardinality(AcceptedInits) <= 1)
    /\ [][exists(configKV) =>
             /\ AcceptedInits' = AcceptedInits
             /\ configKV'[CONFIG_KEY].adminToken
                    = configKV[CONFIG_KEY].adminToken]_vars

\* ------------------------------------------------------------------ C30
\* The stored App has a templateId exactly when its messageType is
\* template (what App creation enforces).
WellFormedApp(app) == (app.messageType = "template") <=> (app.templateId # "")

\* C30: all deliveries of one push use the same message variant, the one
\* of the App's messageType: the template-message endpoint with the stored
\* App's templateId for a template App, the custom-message endpoint for a
\* normal App.
C30_VariantOfMessageType ==
    \A p \in Pushes :
        (PassedRouting(p) /\ WellFormedApp(getByKey(appsKV, req[p].appKey))) =>
            LET stored == getByKey(appsKV, req[p].appKey)
            IN  /\ Len(deliv[p]) = Len(loc[p].targets)
                /\ \A i \in DOMAIN deliv[p] :
                      /\ deliv[p][i].template = (stored.messageType = "template")
                      /\ deliv[p][i].template =>
                            /\ TemplateIdSent(loc[p].app) = stored.templateId
                            /\ TemplateIdSent(loc[p].app) # ""

\* A template App's push to two recipients: the first delivery has
\* settled, the second is still under way, both on the template endpoint.
C30_Witness ==
    \E p \in Pushes :
        /\ PassedRouting(p)
        /\ loc[p].app.messageType = "template"
        /\ loc[p].app.templateId = "tpl1"
        /\ Len(deliv[p]) = 2
        /\ deliv[p][1].pc = "done"
        /\ deliv[p][2].pc # "done"
        /\ deliv[p][1].template /\ deliv[p][2].template

\* ------------------------------------------------------------------ C31
\* The cache key of the calls of push p (its channel is read).
TierKey(p) == getAccessTokenCacheKey(channelsKV[appsKV[req[p].appKey].channelId])

\* The tiers' entries for the key of push p as a call made now finds them.
MemoryEntry(p) == KvGet(memoryTokenCache, TierKey(p))
KvEntry(p) == KvGetTtl(configKV, TierKey(p), now)

\* The call of delivery i of push p is made (not forced) in this step.
CalledNow(p, i) ==
    /\ pc[p] = "fetch" /\ pc'[p] = "deliver"
    /\ i \in DOMAIN deliv'[p]

\* Delivery i of push p takes a step from position from to position to.
Moves(p, i, from, to) ==
    /\ i \in DOMAIN deliv[p] /\ i \in DOMAIN deliv'[p]
    /\ deliv[p][i].pc = from /\ deliv'[p][i].pc = to
    /\ deliv'[p][i] # deliv[p][i]

\* A call that is not forced is answered from the memory tier, with no
\* key-value read and no token request, exactly when the memory tier holds
\* an unexpired entry at the call; otherwise it reads the key-value tier.
C31_MemoryFirst ==
    \A p \in Pushes : \A i \in 1..MaxRecipients :
        CalledNow(p, i) =>
            IF TokenUsable(MemoryEntry(p), now)
            THEN /\ deliv'[p][i].pc = "send"
                 /\ deliv'[p][i].token = MemoryEntry(p).accessToken
                 /\ deliv'[p][i].fetches = 0
            ELSE deliv'[p][i].pc = "kvget"

\* The key-value read settles: an unexpired entry is handed to the caller
\* and copied to the memory tier, which then answers a call; a token
\* request is made only when the read finds no unexpired entry.
C31_KvSecond ==
    \A p \in Pushes : \A i \in 1..MaxRecipients :
        /\ Moves(p, i, "kvget", "send") =>
              /\ TokenUsable(KvEntry(p), now)
              /\ deliv'[p][i].token = KvEntry(p).accessToken
              /\ deliv'[p][i].fetches = 0
              /\ memoryTokenCache'[TierKey(p)] =
                     [accessToken |-> KvEntry(p).accessToken,
                      expiresAt |-> KvEntry(p).expiresAt]
              /\ TokenUsable(memoryTokenCache'[TierKey(p)], now)
        /\ Moves(p, i, "kvget", "tokfetch") => ~TokenUsable(KvEntry(p), now)

\* A token request of a call that is not forced follows its key-value read.
C31_RequestAfterRead ==
    \A p \in Pushes : \A i \in 1..MaxRecipients :
        ( /\ i \in DOMAIN deliv'[p]
          /\ deliv'[p][i].pc = "tokfetch" /\ deliv'[p][i].phase = 1
          /\ ~(i \in DOMAIN deliv[p] /\ deliv[p][i].pc = "tokfetch") ) =>
            Moves(p, i, "kvget", "tokfetch")

\* The forced call of the retry makes a token request whatever the tiers
\* hold.
C31_ForcedAlwaysRequests ==
    \A p \in Pushes : \A i \in 1..MaxRecipients :
        ( /\ i \in DOMAIN deliv[p] /\ i \in DOMAIN deliv'[p]
          /\ deliv[p][i].phase = 1 /\ deliv'[p][i].phase = 2 ) =>
            /\ deliv'[p][i].pc = "tokfetch"
            /\ deliv'[p][i].fetches = deliv[p][i].fetches + 1

\* C31 as stated: a call that is not forced makes its token request only
\* when neither tier holds an unexpired entry at the time of the request,
\* a key-value hit is copied to the memory tier and answers the next call,
\* and a forced call always makes a token request.
C31_RequestOnlyWhenBothTiersMiss ==
    [][ /\ C31_MemoryFirst /\ C31_KvSecond /\ C31_RequestAfterRead
        /\ C31_ForcedAlwaysRequests
        /\ \A p \in Pushes : \A i \in 1..MaxRecipients :
              Moves(p, i, "kvget", "tokfetch") =>
                  /\ ~TokenUsable(MemoryEntry(p), now)
                  /\ ~TokenUsable(KvEntry(p), now) ]_vars

\* C31 (amended): each call that is not forced consults the memory tier
\* when it is made and the key-value tier when its read settles, and makes
\* a token request only when each tier held no unexpired entry at its own
\* check (the memory tier may have been filled by a concurrent call since);
\* a key-value hit is copied to the memory tier, which answers every call
\* made while its entry is unexpired with no key-value read and no token
\* request; a forced call always makes a token request.
C31_TiersConsultedInOrder ==
    [][ /\ C31_MemoryFirst /\ C31_KvSecond /\ C31_RequestAfterRead
        /\ C31_ForcedAlwaysRequests ]_vars

\* Push "p1" was answered from the tiers without a token request, the
\* memory tier holds the copy of the key-value entry, and its retry's
\* forced call is at the provider while both tiers hold an unexpired
\* entry; push "p2", called later, is sending with the memory tier's token
\* without a token request of its own.
C31_Witness ==
    /\ {"p1", "p2"} \subseteq Pushes
    /\ pc["p1"] = "deliver" /\ pc["p2"] = "deliver"
    /\ TokenUsable(MemoryEntry("p1"), now)
    /\ TokenUsable(KvEntry("p1"), now)
    /\ MemoryEntry("p1") = [accessToken |-> KvEntry("p1").accessToken,
                            expiresAt |-> KvEntry("p1").expiresAt]
    /\ deliv["p1"][1].pc = "tokfetch" /\ deliv["p1"][1].phase = 2
    /\ deliv["p1"][1].fetches = 1
    /\ deliv["p2"][1].pc = "send" /\ deliv["p2"][1].fetches = 0
    /\ deliv["p2"][1].token = MemoryEntry("p2").accessToken
    /\ loc["p2"].createdAt > loc["p1"].createdAt

\* ------------------------------------------------------------------ C37
\* Every call of getAccessToken made for push p has completed and returned
\* a token (every delivery of p ended in a successful send), and at least
\* one of them was a refresh (the memory tier holds an issued token).
RefreshesCompleted(p) ==
    /\ pc[p] = "deliver"
    /\ Len(deliv[p]) >= 1
    /\ \A i \in DOMAIN deliv[p] :
          deliv[p][i].pc = "done" /\ deliv[p][i].outcome.success
    /\ CacheKeyOf(p) \in DOMAIN memoryTokenCache
    /\ IsIssued(memoryTokenCache[CacheKeyOf(p)].accessToken)

\* C37: once the concurrent successful refreshes for one appId have all
\* completed, the memory tier and the key-value tier hold the same token
\* under the key.
C37_TiersHoldSameToken ==
    \A p \in Pushes :
        RefreshesCompleted(p) =>
            /\ CacheKeyOf(p) \in DOMAIN configKV
            /\ configKV[CacheKeyOf(p)].value.accessToken
                   = memoryTokenCache[CacheKeyOf(p)].accessToken

\* ------------------------------------------------------------------ C36
\* The forced call of delivery i of push p ends in this step without a
\* token: the delivery settles without a second send.
ForcedCallEndsWithoutToken(p, i) ==
    /\ Moves(p, i, "status", "done")
    /\ deliv[p][i].phase = 2

\* sendCustomMessage / sendTemplateMessage return the first send's failure.
C36_FirstFailureReturned ==
    \A p \in Pushes : \A i \in 1..MaxRecipients :
        ForcedCallEndsWithoutToken(p, i) =>
            /\ ~deliv'[p][i].outcome.success
            /\ deliv'[p][i].outcome.error = deliv[p][i].first.error

\* A forced call that turns out to yield no token has put nothing of its
\* own into a tier: when its key-value write fails the memory tier does
\* not hold its tokenData, and when its status write fails the key-value
\* tier does not hold its token.
C36_TiersUntouched ==
    \A p \in Pushes : \A i \in 1..MaxRecipients :
        LET k == TierKey(p)
        IN  /\ ( /\ Moves(p, i, "kvput", "status")
                 /\ deliv[p][i].phase = 2
                 /\ deliv'[p][i].pending.returns = NoToken ) =>
                   KvGet(memoryTokenCache', k) # deliv[p][i].pending
            /\ ( /\ Moves(p, i, "status", "status")
                 /\ deliv[p][i].phase = 2
                 /\ deliv[p][i].pending.returns # NoToken ) =>
                   ~( /\ k \in DOMAIN configKV'
                      /\ configKV'[k].value.accessToken
                             = deliv[p][i].pending.returns )

\* C36: when the first send failed with 40001 or 42001 and the forced
\* refresh yields no token, no second send is made and the first failure
\* is returned, and the failed refresh has left the entries of the memory
\* tier and of the key-value tier as they were.
C36_FailedRefreshChangesNothing ==
    [][C36_FirstFailureReturned /\ C36_TiersUntouched]_vars

\* ------------------------------------------------------------------ C32
\* The keys saveMessage(m) may change: the body of m, the global list, and
\* the list of m's channel, App and recipient for each of the three fields
\* that is set.
ClaimedKeys(m) ==
    {<<"msg", m.id>>, <<"msg_list">>} \cup
    (IF m.channelId # "" THEN {<<"msg_channel", m.channelId>>} ELSE {}) \cup
    (IF m.appId # "" THEN {<<"msg_app", m.appId>>} ELSE {}) \cup
    (IF m.openId # "" THEN {<<"msg_openid", m.openId>>} ELSE {})

\* The keys of the store whose entry is not the same after the step.
ChangedKeys ==
    { k \in DOMAIN messagesKV \cup DOMAIN messagesKV' :
          \/ k \notin DOMAIN messagesKV
          \/ k \notin DOMAIN messagesKV'
          \/ messagesKV'[k] # messagesKV[k] }

\* A step changes at most one key, one of the claimed keys of the
\* saveMessage call that takes the step.
C32_FrameStep ==
    ChangedKeys # {} =>
        \E p \in Pushes :
            /\ save[p] # Null /\ save'[p] # save[p]
            /\ ChangedKeys \subseteq ClaimedKeys(save[p].message)
            /\ ChangedKeys \subseteq DOMAIN messagesKV'

\* The writes a saveMessage call has issued are those of the claimed keys,
\* and a completed call has written every one of them (each claimed list
\* with the id at its head when the call ran alone).
C32_AllClaimedWritten ==
    \A p \in Pushes :
        save[p] # Null =>
            LET m == save[p].message
            IN  /\ { u.key : u \in DOMAIN save[p].idx } \cup {MessageKey(m.id)}
                       = ClaimedKeys(m)
                /\ Completed(p) => ClaimedKeys(m) \subseteq DOMAIN messagesKV
                /\ (Completed(p) /\ \A q \in Pushes \ {p} : save[q] = Null) =>
                       \A k \in ClaimedKeys(m) \ {MessageKey(m.id)} :
                           Head(messagesKV[k]) = m.id

\* C32: saveMessage changes only the message body, the global list and the
\* channel, App and recipient lists of the message's own channelId, appId
\* and openId, each exactly when the field is set; every other body and
\* every other index stays as it is.
C32_SaveMessageFrame == [][C32_FrameStep]_vars /\ []C32_AllClaimedWritten

\* An inbound message of recipient "o1", without channel and App, was
\* saved on a long history: the recipient list and the global list have
\* it at their head, the full lists of channel "c1" and App "a1" do not.
C32_Witness ==
    /\ Pushes = {"s1"}
    /\ Completed("s1")
    /\ save["s1"].message.openId = "o1"
    /\ save["s1"].message.channelId = ""
    /\ Head(messagesKV[<<"msg_openid", "o1">>]) = "s1"
    /\ Head(messagesKV[<<"msg_list">>]) = "s1"
    /\ Len(messagesKV[<<"msg_channel", "c1">>]) = CHANNEL_LIST_LIMIT
    /\ Head(messagesKV[<<"msg_channel", "c1">>]) # "s1"
    /\ Head(messagesKV[<<"msg_app", "a1">>]) # "s1"

\* ------------------------------------------------------------------ C33
\* No write of the call is in flight: each has been made, has failed, or
\* was never begun.
NothingInFlight(sv) ==
    /\ sv.body \in {"done", "failed"}
    /\ \A u \in DOMAIN sv.idx : sv.idx[u].pc \in {"done", "failed", "wait"}

SomeIndexFailed(sv) == \E u \in DOMAIN sv.idx : sv.idx[u].pc = "failed"

\* C33: a failing index update does not stop the sibling writes of its
\* saveMessage: once nothing of the call is in flight any more, the body
\* was written and every other index update was made (or failed by
\* itself), so the message is retrievable by get(id) and is in every
\* index whose own update succeeded.
C33_FailureDoesNotStopSiblings ==
    \A p \in Pushes :
        (save[p] # Null /\ NothingInFlight(save[p]) /\ SomeIndexFailed(save[p])) =>
            LET m == save[p].message
            IN  /\ \A u \in DOMAIN save[p].idx : save[p].idx[u].pc # "wait"
                /\ save[p].body = "done" => get(messagesKV, m.id) = m
                /\ \A u \in DOMAIN save[p].idx :
                      save[p].idx[u].pc = "done" =>
                          /\ u.key \in DOMAIN messagesKV
                          /\ Head(messagesKV[u.key]) = m.id

\* ------------------------------------------------------------------ C35
\* The store the call of this run found: the list of App "a2", which no
\* message of the run is filed under, tells the histories apart.
StoreAtCall ==
    CHOOSE s \in SeqStores :
        IndexList(s, <<"msg_app", "a2">>) = IndexList(messagesKV, <<"msg_app", "a2">>)

\* C35: run alone and without failures, the saveMessage of
\* message.service.ts (one write after the other) and the saveMessage of
\* push.service.ts (all writes at once) end with the same store: from
\* every store and for every message, a completed call of either has
\* left the message body and, in every list index, the contents
\* SavedAlone gives.
C35_SameEndOfBothSaveMessages ==
    \A p \in Pushes :
        Completed(p) =>
            messagesKV = SavedAlone(StoreAtCall, save[p].message)

\* The saveMessage of message.service.ts has completed for a message with
\* channel, App and recipient on a history whose indexes were full: every
\* list is still at its cap, with the new id at its head.
C35_Witness ==
    /\ Pushes = {"s1"}
    /\ Completed("s1")
    /\ IsSequential(save["s1"])
    /\ save["s1"].message.channelId = "c1"
    /\ save["s1"].message.appId = "a1"
    /\ save["s1"].message.openId = "o1"
    /\ Len(messagesKV[<<"msg_list">>]) = GLOBAL_LIST_LIMIT
    /\ Len(messagesKV[<<"msg_openid", "o1">>]) = OPENID_LIST_LIMIT
    /\ Head(messagesKV[<<"msg_openid", "o1">>]) = "s1"
    /\ messagesKV[<<"msg_openid", "o1">>][2] = ToString(OPENID_LIST_LIMIT)

\* ------------------------------------------------------------------ C34
\* C34: in no state of the store (and so at no read of a concurrent list
\* or get) is the id of a message being saved in a list index while its
\* body is not stored: the body is retrievable by get(id) before the id
\* is visible in the global, channel, App or recipient list.
C34_BodyBeforeIndex ==
    \A p \in Pushes :
        (save[p] # Null /\ save[p].message.id \in IndexedIds) =>
            get(messagesKV, save[p].message.id) = save[p].message

\* ------------------------------------------------------------------ C38
\* The queries put to list(): no filter and a recipient (direct
\* pagination), an App and a direction (bulk fetch and filter).
RemovalQueries ==
    { NoFilters, [NoFilters EXCEPT !.openId = "o1"],
      [NoFilters EXCEPT !.appId = "a1"],
      [NoFilters EXCEPT !.direction = "outbound"] }

\* Message m matches every filter given in the options o.
MatchesOptions(o, m) ==
    /\ o.openId # "" => Field(m, "openId") = o.openId
    /\ o.appId # "" => Field(m, "appId") = o.appId
    /\ o.channelId # "" => Field(m, "channelId") = o.channelId
    /\ o.direction # "" => m.direction = o.direction

\* The stored messages that match the options o.
StoredMatching(o) ==
    { messagesKV[k] : k \in { kk \in KvListAll(messagesKV, MESSAGE_PREFIX) :
                                 MatchesOptions(o, messagesKV[kk]) } }

\* No saveMessage is under way: every stored message is in its indexes.
NoSaveUnderWay == \A s \in Savers : pc[s] = "idle"

\* list returns stored messages only, so none that was removed.
C38_ListReturnsStoredOnly ==
    \A o \in RemovalQueries :
        LET r == MessageList(messagesKV, o)
        IN  \A j \in DOMAIN r.messages : r.messages[j] \in StoredMatching(o)

\* The total list reports is the number of stored messages that match.
C38_TotalIsStoredCount ==
    \A o \in RemovalQueries :
        NoSaveUnderWay =>
            MessageList(messagesKV, o).total = Cardinality(StoredMatching(o))

\* delete(id) of an absent id returns false and changes nothing.
C38_AbsentDeleteStep ==
    \A d \in Deleters :
        (pc[d] = "delete_get" /\ pc'[d] \notin {"delete_get", "threw"}
           /\ KvGet(messagesKV, loc[d].key) = Null) =>
            /\ pc'[d] = "returned"
            /\ ret'[d] = Returned(FALSE)
            /\ messagesKV' = messagesKV

\* C38: after delete(id) or cleanup has removed a message no list call
\* returns it and the total of list is the number of stored messages that
\* match the filter, on the direct path and on the filtered path alike;
\* delete(id) of an absent id returns false and changes nothing.
C38_ListAfterRemoval ==
    /\ [](C38_ListReturnsStoredOnly /\ C38_TotalIsStoredCount)
    /\ [][C38_AbsentDeleteStep]_vars

\* ------------------------------------------------------------------ C39
\* push has ended: it returned a PushResult or rejected.
PushEnded(p) == pc[p] \in {"returned", "threw"}

\* What push returns is a PushResult, and it rejects with nothing but the
\* error of a store call that rejected.
C39_EndsWithResultOrStoreError ==
    \A p \in Pushes :
        /\ pc[p] = "returned" =>
              /\ IsReturn(p)
              /\ DOMAIN ret[p].value =
                    {"pushId", "total", "success", "failed", "results"}
        /\ pc[p] = "threw" => ret[p] = Thrown("KV error")

\* C39: when every key-value call and every provider call is answered,
\* every call of push ends: it returns a PushResult, or rejects with the
\* error of a store call that rejected; it never stays waiting.
C39_PushTerminates ==
    /\ \A p \in {"p1"} : (pc[p] # "idle") ~> PushEnded(p)
    /\ []C39_EndsWithResultOrStoreError

\* push has returned its PushResult after two deliveries, one failed and
\* one successful, and after its history record was written.
C39_Witness ==
    /\ pc["p1"] = "returned"
    /\ Len(deliv["p1"]) = 2
    /\ ret["p1"].value.total = 2
    /\ ret["p1"].value.failed = 1
    /\ get(messagesKV, ret["p1"].value.pushId) # Null

\* ------------------------------------------------------------------ C40
\* The markAsBound calls for a code that succeeded.
BoundBy(code) ==
    { p \in Binders \cap Pushes :
        pc[p] = "returned" /\ toUpperCase(req[p].code) = code }

\* The stored record of a code, whatever the time.
StoredBindCode(code) ==
    IF BindCodeKey(code) \in DOMAIN configKV
    THEN configKV[BindCodeKey(code)].value ELSE Null

\* Of the markAsBound calls for one code at most one succeeds.
C40_AtMostOneSucceeds ==
    \A code \in BindCodes : Cardinality(BoundBy(code)) <= 1

\* The stored openId of a bound code is the one of the call that succeeded.
C40_StoredOpenIdOfWinner ==
    \A code \in BindCodes : \A p \in BoundBy(code) :
        StoredBindCode(code).openId = req[p].openId

\* A step that turns a record into bound acts on a code that is stored
\* and not past its expiry time.
C40_NoLateBinding ==
    \A p \in Binders \cap Pushes :
        (pc[p] = "mark_put" /\ pc'[p] = "returned") =>
            LET bindCode == BindCodeGet(configKV, req[p].code, now)
            IN  bindCode # Null /\ ~isBindCodeExpired(bindCode, now)

\* What getStatus answers for a stored record: bound with its openId once
\* bound, also past the expiry time; expired for a pending code past its
\* expiry time and for a missing code.
C40_StatusAnswers ==
    \A code \in BindCodes :
        LET bindCode == BindCodeGet(configKV, code, now)
            answer == BindCodeStatusOf(bindCode, now)
        IN  /\ bindCode = Null => answer = [status |-> "expired"]
            /\ bindCode # Null =>
                  /\ bindCode.status = "bound" =>
                        /\ answer.status = "bound"
                        /\ answer.openId = bindCode.openId
                  /\ (bindCode.status = "pending" /\ now > bindCode.expiresAt)
                        => answer = [status |-> "expired"]

\* C40: a bind code is used at most once: of the markAsBound calls for one
\* code, overlapping ones included, at most one succeeds and the stored
\* openId is that call's; a missing or expired code is never turned into
\* bound; a bound code reports bound with its openId also past its expiry
\* time, a pending code past expiry and a missing code report expired.
C40_BindCodeUsedOnce ==
    /\ [](C40_AtMostOneSucceeds /\ C40_StoredOpenIdOfWinner
              /\ C40_StatusAnswers)
    /\ [][C40_NoLateBinding]_vars

====
